---------------------------- MODULE Spec2Model ----------------------------
(***************************************************************************)
(* Model of the structured-note-analyzer serverless handlers: the          *)
(* locate-filing (analyze-cusip) variants, the fetch-document handler      *)
(* (filing-html) and the extract-terms (parse-filing) variants.            *)
(*                                                                         *)
(* One behaviour of the model is one request served by one handler         *)
(* variant.  Every `await` of an outbound call is a position (pc) of the   *)
(* handler; the action that leaves the position draws the upstream's       *)
(* answer from a small set and runs the handler up to its next await or    *)
(* to its response.                                                        *)
(*                                                                         *)
(* JavaScript strings are sequences of one-character strings.  The value   *)
(* `undefined` (a missing query parameter, environment variable or JSON    *)
(* property) is the one-element sequence Undefined, which no string of     *)
(* characters equals.                                                      *)
(***************************************************************************)
EXTENDS Integers, Sequences, FiniteSets, TLC

\* ------------------------------------------------------------------ bounds

\* Longest CIK string of a request.
MaxCikLen == 2
\* Most entries of a directory listing (index.json directory.item).
MaxItems == 2
\* Most filings of an upstream search result.
MaxFilings == 2

\* ----------------------------------------------------------------- strings

Undefined == <<"undefined">>

\* JavaScript truthiness of a string, undefined or null: !x is true for
\* undefined, for null and for the empty string.
Null == <<"null">>

\* A truthiness test under which the empty string passes.
Truthy_emptyPasses(x) == x # Undefined /\ x # Null

Truthy(x) == x # Undefined /\ x # Null /\ x # <<>>

\* x || null
orNull(x) == IF Truthy(x) THEN x ELSE Null

\* null, where the value would be an object (or a URL or a document)
NullRec == [null |-> TRUE]

LowerChars == <<"a","b","c","d","e","f","g","h","i","j","k","l","m",
                "n","o","p","q","r","s","t","u","v","w","x","y","z">>
UpperChars == <<"A","B","C","D","E","F","G","H","I","J","K","L","M",
                "N","O","P","Q","R","S","T","U","V","W","X","Y","Z">>

toUpperChar(c) ==
  IF \E i \in DOMAIN LowerChars : LowerChars[i] = c
  THEN UpperChars[CHOOSE i \in DOMAIN LowerChars : LowerChars[i] = c]
  ELSE c

toLowerChar(c) ==
  IF \E i \in DOMAIN UpperChars : UpperChars[i] = c
  THEN LowerChars[CHOOSE i \in DOMAIN UpperChars : UpperChars[i] = c]
  ELSE c

toUpperCase(s) == [i \in 1..Len(s) |-> toUpperChar(s[i])]
toLowerCase(s) == [i \in 1..Len(s) |-> toLowerChar(s[i])]

\* s.substring(0, n)
substring0(s, n) == SubSeq(s, 1, IF n < Len(s) THEN n ELSE Len(s))

\* s.includes(sub)
includes(s, sub) ==
  \E i \in 0..(Len(s) - Len(sub)) : SubSeq(s, i + 1, i + Len(sub)) = sub

\* s.endsWith(suf)
endsWith(s, suf) ==
  Len(suf) <= Len(s) /\ SubSeq(s, Len(s) - Len(suf) + 1, Len(s)) = suf

\* s.startsWith(pre)
startsWith(s, pre) == Len(pre) <= Len(s) /\ SubSeq(s, 1, Len(pre)) = pre

\* s.indexOf(sub) and s.lastIndexOf(sub), zero-based, -1 when absent.
indexOf(s, sub) ==
  LET hits == {i \in 0..(Len(s) - Len(sub)) : SubSeq(s, i + 1, i + Len(sub)) = sub}
  IN IF hits = {} THEN -1 ELSE CHOOSE i \in hits : \A j \in hits : i <= j

lastIndexOf(s, sub) ==
  LET hits == {i \in 0..(Len(s) - Len(sub)) : SubSeq(s, i + 1, i + Len(sub)) = sub}
  IN IF hits = {} THEN -1 ELSE CHOOSE i \in hits : \A j \in hits : i >= j

\* The white space of String.prototype.trim and of the regular expression \s
\* that the modelled inputs contain.
WhiteSpace == {" ", "\n"}

RECURSIVE trimStart(_)
trimStart(s) ==
  IF s # <<>> /\ Head(s) \in WhiteSpace THEN trimStart(Tail(s)) ELSE s

RECURSIVE trimEnd(_)
trimEnd(s) ==
  IF s # <<>> /\ s[Len(s)] \in WhiteSpace
  THEN trimEnd(SubSeq(s, 1, Len(s) - 1))
  ELSE s

trim(s) == trimEnd(trimStart(s))

\* s.replace(/-/g, "")
RECURSIVE removeDashes(_)
removeDashes(s) ==
  IF s = <<>> THEN <<>>
  ELSE IF Head(s) = "-" THEN removeDashes(Tail(s))
  ELSE <<Head(s)>> \o removeDashes(Tail(s))

\* s.replace(/^0+/, "")
RECURSIVE stripLeadingZeros(_)
stripLeadingZeros(s) ==
  IF s # <<>> /\ Head(s) = "0" THEN stripLeadingZeros(Tail(s)) ELSE s

DecimalDigits == {"0","1","2","3","4","5","6","7","8","9"}

RECURSIVE digitPrefix(_)
digitPrefix(s) ==
  IF s # <<>> /\ Head(s) \in DecimalDigits
  THEN <<Head(s)>> \o digitPrefix(Tail(s))
  ELSE <<>>

\* The value of a decimal digit.
digitValue(c) ==
  CHOOSE n \in 0..9 : <<"0","1","2","3","4","5","6","7","8","9">>[n + 1] = c

\* a < b, for digit strings of one length.
RECURSIVE lessDigits(_, _)
lessDigits(a, b) ==
  /\ a # <<>>
  /\ \/ digitValue(Head(a)) < digitValue(Head(b))
     \/ Head(a) = Head(b) /\ lessDigits(Tail(a), Tail(b))

\* The digits of the number one above the number written s.
RECURSIVE incrementDigits(_)
incrementDigits(s) ==
  IF s = <<>> THEN <<"1">>
  ELSE IF s[Len(s)] = "9"
  THEN incrementDigits(SubSeq(s, 1, Len(s) - 1)) \o <<"0">>
  ELSE SubSeq(s, 1, Len(s) - 1)
         \o << <<"0","1","2","3","4","5","6","7","8","9">>[digitValue(s[Len(s)]) + 2] >>

\* 2^53, up to which every integer is a double.
TwoTo53 == <<"9","0","0","7","1","9","9","2","5","4","7","4","0","9","9","2">>

\* The digits String prints for the double nearest to the integer written
\* z (no leading zeros).  Up to 2^53 the integer is exact.  A 16-digit
\* integer above 2^53 lies below 2^54, where the doubles are the even
\* integers: an odd one is a tie and goes to the neighbour that is a
\* multiple of 4 (even mantissa).  Longer strings, which print in a
\* shortest-round-trip or exponent form, are not among the modelled inputs
\* and the operator is not defined for them.
nearestDouble(z) ==
  CASE Len(z) < 16 \/ (Len(z) = 16 /\ ~lessDigits(TwoTo53, z)) -> z
    [] Len(z) = 16 /\ lessDigits(TwoTo53, z) ->
         LET a == digitValue(z[15])
             b == digitValue(z[16])
         IN IF b % 2 = 0 THEN z
            ELSE IF (10 * a + b - 1) % 4 = 0
            THEN SubSeq(z, 1, 15) \o << <<"0","1","2","3","4","5","6","7","8","9">>[b] >>
            ELSE incrementDigits(z)

\* String(parseInt(s, 10)): leading white space is skipped, one sign is
\* read, then the longest run of decimal digits; no digit gives NaN.  The
\* number is the double nearest to the digits read and prints without
\* leading zeros.
stringOfParseInt(s) ==
  LET t    == trimStart(s)
      sgn  == t # <<>> /\ Head(t) \in {"-", "+"}
      neg  == t # <<>> /\ Head(t) = "-"
      d    == digitPrefix(IF sgn THEN Tail(t) ELSE t)
      z    == stripLeadingZeros(d)
  IN IF d = <<>> THEN <<"N","a","N">>
     ELSE IF z = <<>> THEN <<"0">>
     ELSE (IF neg THEN <<"-">> ELSE <<>>) \o nearestDouble(z)

\* All sequences over S of length at most n.
RECURSIVE SeqsUpTo(_, _)
SeqsUpTo(S, n) ==
  IF n = 0 THEN {<<>>}
  ELSE LET shorter == SeqsUpTo(S, n - 1)
       IN shorter \cup {Append(s, x) : s \in shorter, x \in S}


\* -------------------------------------------------------------- documents

\* A document body (HTML text) is `head` followed by `pad` filler
\* characters "~", a character no modelled CUSIP contains: its length and
\* its prefixes are exact, and so is a search for a string without "~".
Html(head, pad) == [head |-> head, pad |-> pad]

length(d) == Len(d.head) + d.pad

\* d.slice(0, n) and d.substring(0, n)
slice0(d, n) ==
  IF n <= Len(d.head) THEN Html(SubSeq(d.head, 1, n), 0)
  ELSE Html(d.head, IF d.pad < n - Len(d.head) THEN d.pad ELSE n - Len(d.head))

\* d + suffix
concat(d, suffix) ==
  IF d.pad = 0 THEN Html(d.head \o suffix, 0)
  ELSE Html(d.head \o [i \in 1..d.pad |-> "~"] \o suffix, 0)

\* d.includes(s), for s without "~"
htmlIncludes(d, s) == includes(d.head, s)

htmlToUpperCase(d) == Html(toUpperCase(d.head), d.pad)

\* ------------------------------------------------------------------- JSON

\* The member "payoff_today" of a note as the prompts describe it
\* (amount_per_1000 and pct_of_par: number | null), once with both fields
\* null and once with both fields numbers.  Each is one token of a text.
payoffNull ==
  "\"payoff_today\":{\"amount_per_1000\":null,\"pct_of_par\":null,\"status\":\"not computed\"}"

payoffNumber ==
  "\"payoff_today\":{\"amount_per_1000\":1032.5,\"pct_of_par\":103.25,\"status\":\"Above par\"}"

\* JSON.parse over the characters of the modelled texts: white space, then
\* one value, then white space; a value is {} or [] (white space allowed
\* inside), an object of one payoff_today member, an array of one value,
\* or a run of the digit 1.  The parsed value is written as its text
\* without white space.
RECURSIVE isJsonValue(_)
isJsonValue(s) ==
  /\ s # <<>>
  /\ \/ \A i \in 1..Len(s) : s[i] = "1"
     \/ /\ Len(s) >= 2 /\ Head(s) = "{" /\ s[Len(s)] = "}"
        /\ trim(SubSeq(s, 2, Len(s) - 1)) \in {<<>>, <<payoffNull>>, <<payoffNumber>>}
     \/ /\ Len(s) >= 2 /\ Head(s) = "[" /\ s[Len(s)] = "]"
        /\ LET mid == trim(SubSeq(s, 2, Len(s) - 1))
           IN mid = <<>> \/ isJsonValue(mid)

RECURSIVE removeWhiteSpace(_)
removeWhiteSpace(s) ==
  IF s = <<>> THEN <<>>
  ELSE IF Head(s) \in WhiteSpace THEN removeWhiteSpace(Tail(s))
  ELSE <<Head(s)>> \o removeWhiteSpace(Tail(s))

JSONparse(s) ==
  IF isJsonValue(trim(s))
  THEN [ok |-> TRUE, value |-> removeWhiteSpace(s)]
  ELSE [ok |-> FALSE, value |-> <<>>]

\* ----------------------------------------------------------------- inputs

\* The handler variants, by source.
Handlers ==
  { "analyze-cusip#1",   \* src/api/analyze-cusip.js:1
    "analyze-cusip#2",   \* src/api/analyze-cusip.js:196
    "filing-html",       \* src/api/filing-html.js:1
    "parse-filing#1",    \* src/api/parse-filing.js:1
    "parse-filing#2",    \* src/api/parse-filing.js:197
    "parse-filing#3",    \* src/api/parse-filing.js:456
    "part_000#1",        \* src/unnamed/part_000:13
    "part_000#2",        \* src/unnamed/part_000:95
    "part_001",          \* src/unnamed/part_001:5
    "part_002",          \* src/unnamed/part_002:8
    "part_003",          \* src/unnamed/part_003:11
    "part_004#1",        \* src/unnamed/part_004:6
    "part_004#2",        \* src/unnamed/part_004:113
    "part_005" }         \* src/unnamed/part_005:14

Cusip1 == <<"4","8","1","3","6","H","7","D","4">>

Acc1 == <<"0","0","1","-","2","5","-","7">>

LocateHandlers ==
  { "analyze-cusip#1", "analyze-cusip#2", "part_000#1", "part_000#2", "part_001",
    "part_002", "part_003", "part_004#1", "part_004#2", "part_005" }

\* The variants that look the issuer up in issuerMap.
MapHandlers == { "part_000#1", "part_004#2", "part_005" }

ExtractHandlers == { "parse-filing#1", "parse-filing#2", "parse-filing#3" }

\* req.query, as far as the handler reads it: a locate-filing handler reads
\* cusip (and only the issuerMap variants look into its characters), the
\* fetch-document handler reads accessionNo and cik, an extract-terms
\* handler reads all three.
QueriesOf(v) ==
  LET CusipInputs == { Undefined, <<>>, Cusip1,
                       <<"4","8","1","3","6","h","7","d","4">>,
                       <<" ","4","8","1","3","6","H","7","D","4">>,
                       <<"9","9","9","9","9","X","0","0","0">>,
                       <<"4","8","1","3">> }
      AccInputs == { Undefined, <<>>, Acc1, <<"0","0","1","7">> }
      CikInputs == {Undefined, <<"0">> \o incrementDigits(TwoTo53)}
                     \cup SeqsUpTo({"0", "7", "x"}, MaxCikLen)
  IN
  IF v \in MapHandlers
  THEN {[cusip |-> c, accessionNo |-> Undefined, cik |-> Undefined] : c \in CusipInputs}
  ELSE IF v \in LocateHandlers
  THEN {[cusip |-> c, accessionNo |-> Undefined, cik |-> Undefined] :
          c \in {Undefined, <<>>, Cusip1}}
  ELSE IF v = "filing-html"
  THEN {[cusip |-> Undefined, accessionNo |-> a, cik |-> k] :
          a \in AccInputs, k \in CikInputs}
  ELSE {[cusip |-> Cusip1, accessionNo |-> a, cik |-> k] :
          a \in AccInputs, k \in CikInputs}
       \cup {[cusip |-> c, accessionNo |-> Acc1, cik |-> <<"7">>] : c \in {Undefined, <<>>}}

ApiKey == <<"k","e","y">>

\* process.env, as far as the handler reads it.
EnvsOf(v) ==
  IF v \in ExtractHandlers
  THEN [SEC_API_KEY : {Undefined}, OPENAI_API_KEY : {Undefined, ApiKey}]
  ELSE [SEC_API_KEY : {Undefined, ApiKey}, OPENAI_API_KEY : {Undefined}]

\* HTTP statuses an upstream answers with; response.ok is 200..299.  Status
\* 0 stands for a call that rejects (no response at all).
Statuses == {200, 404, 503}
rejected(r) == r.status = 0
ok_notRejected(r) == r.status # 0
ok(r) == r.status >= 200 /\ r.status <= 299

HtmlDocs ==
  { Html(<<>>, 0),
    Html(Cusip1, 10),
    Html(<<"x">>, 5000),
    Html(Cusip1, 200000) }


\* directory.item of an index.json: entries by name; an entry may carry
\* no name.
Listings ==
  LET names == { Undefined,
                 <<"a",".","h","t","m">>,
                 <<"a",".","h","t","m","l">>,
                 <<"a",".","t","x","t">>,
                 <<"f","w","p",".","h","t","m">>,
                 <<"4","2","4","B","2",".","h","t","m">> }
  IN SeqsUpTo({[name |-> n] : n \in names}, MaxItems)

\* The reply to an index.json request.  Its body is text that is no JSON,
\* the JSON value null, an object whose directory.item is no array, or a
\* listing.
IndexReplies ==
  LET bodies ==
        {[kind |-> k, isArray |-> FALSE, item |-> <<>>] : k \in {"text", "null", "object"}}
        \cup {[kind |-> "object", isArray |-> TRUE, item |-> l] : l \in Listings}
  IN {[status |-> 0, body |-> [kind |-> "text", isArray |-> FALSE, item |-> <<>>]]}
     \cup [status : Statuses, body : bodies]

DocReplies ==
  {[status |-> 0, body |-> Html(<<>>, 0)]}
  \cup [status : Statuses, body : HtmlDocs]

\* filing.linkToHtml of a search result
Link1 == [prefix |-> "https://www.sec.gov/Archives/edgar/data/7/001257/a.htm", path |-> <<>>]

\* The filings of a search result: accession number, CIK and document link
\* (the other properties are copied to the response and decide nothing).
Filings ==
  { [accessionNo |-> Acc1, cik |-> <<"0","7">>, linkToHtml |-> Link1],
    [accessionNo |-> Acc1, cik |-> <<"0","7">>, linkToHtml |-> NullRec],
    [accessionNo |-> Undefined, cik |-> Undefined, linkToHtml |-> NullRec] }

\* The body of a search reply: text that is no JSON, the JSON value null,
\* an object without `filings`, an object whose `filings` is the object {}
\* (no array), or an object with a `filings` array.
SearchBodies ==
  {[kind |-> k, isArray |-> FALSE, filings |-> <<>>] : k \in {"text", "null", "object"}}
  \cup {[kind |-> "object", isArray |-> FALSE, filings |-> <<"{", "}">>]}
  \cup {[kind |-> "object", isArray |-> TRUE, filings |-> l] :
          l \in SeqsUpTo(Filings, MaxFilings)}

SearchReplies ==
  {[status |-> 0, body |-> [kind |-> "text", isArray |-> FALSE, filings |-> <<>>]]}
  \cup [status : Statuses, body : SearchBodies]

\* What a call through the sec-api SDK settles to: it rejects (status 0) or
\* resolves (status 200) to a value of the shapes above.
SdkSearchReplies ==
  {[status |-> 0, body |-> [kind |-> "null", isArray |-> FALSE, filings |-> <<>>]]}
  \cup [status : {200}, body : {b \in SearchBodies : b.kind # "text"}]

SdkDocReplies ==
  {[status |-> 0, body |-> Html(<<>>, 0)]} \cup [status : {200}, body : HtmlDocs]

\* The reply of the SEC submissions API.  Its body is text that is no
\* JSON, the JSON value null, an object without filings.recent (or without
\* its form or accessionNumber), or an object with the rows of
\* filings.recent (the parallel arrays form, accessionNumber, primaryDoc
\* read at one index).
SubsReplies ==
  LET rows ==
        { [form |-> "424B2", accessionNo |-> Acc1, primaryDoc |-> <<"a",".","h","t","m">>],
          [form |-> "FWP",   accessionNo |-> <<"0","0","1","-","2","5","-","8">>, primaryDoc |-> <<"b",".","h","t","m">>],
          [form |-> "10-K",  accessionNo |-> <<"0","0","1","-","2","5","-","9">>, primaryDoc |-> <<"c",".","h","t","m">>] }
      bodies ==
        {[kind |-> k, hasRecent |-> FALSE, rows |-> <<>>] : k \in {"text", "null", "object"}}
        \cup {[kind |-> "object", hasRecent |-> TRUE, rows |-> l] :
                l \in SeqsUpTo(rows, MaxFilings)}
  IN {[status |-> 0, body |-> [kind |-> "text", hasRecent |-> FALSE, rows |-> <<>>]]}
     \cup [status : Statuses, body : bodies]

\* The reply of this repository's /api/filing-html.  Its body is text
\* that is no JSON, or an object whose htmlPreview is absent, empty or a
\* document.
FilingHtmlReplies ==
  LET bodies ==
        {[kind |-> "text", htmlPreview |-> NullRec]}
        \cup [kind : {"object"}, htmlPreview : {NullRec} \cup HtmlDocs]
  IN {[status |-> 0, body |-> [kind |-> "text", htmlPreview |-> NullRec]]}
     \cup [status : Statuses, body : bodies]

\* A fence of three characters U+0060 (a TLA+ string cannot hold the
\* character itself).
Fence == <<"BACKTICK", "BACKTICK", "BACKTICK">>

\* Valid JSON texts the model may answer with.
JsonTexts == { <<"{","}">>, <<"1">>, <<"[","{","}","]">> }

\* A JSON text between fences: a language tag (or none) after the opening
\* fence, and a line break (or none) on either side of the text.
FencedContents ==
  { Fence \o tag \o s1 \o j \o s2 \o Fence :
      tag \in { <<>>, <<"j","s","o","n">>, <<"j","s">> },
      s1 \in { <<>>, <<"\n">> }, j \in JsonTexts, s2 \in { <<>>, <<"\n">> } }

\* choices[0].message.content of a model reply: absent, empty, JSON with
\* or without white space around it, text that is no JSON (bare or between
\* fences), fenced JSON, a note with its payoff_today member.
Contents ==
  { Undefined, <<>>, <<"{","}">>, <<" ","{","}","\n">>, <<"x","{","}">>,
    Fence \o <<" ","{","}"," ">> \o Fence,
    Fence \o <<"\n","x","{","}","\n">> \o Fence,
    <<"{", payoffNull, "}">>, <<"{", payoffNumber, "}">> }
  \cup FencedContents

\* The reply of the chat-completions API.  Its body is text that is no
\* JSON, the JSON value null, or an object with (or without)
\* choices[0].message.content.
AiReplies ==
  LET bodies ==
        {[kind |-> k, content |-> Undefined] : k \in {"text", "null"}}
        \cup [kind : {"object"}, content : Contents]
  IN {[status |-> 0, body |-> [kind |-> "text", content |-> Undefined]]}
     \cup [status : Statuses, body : bodies]

\* ------------------------------------------------------------------ state

VARIABLES
  h,      \* the handler variant serving the request
  pc,     \* its position: "start", the call it awaits, or "done"
  query,  \* req.query
  env,    \* process.env
  calls,  \* the outbound calls issued so far, in order
  last,   \* the upstream reply received last
  loc,    \* the handler's local variables that live across an await
  sent,   \* the responses sent with res.json, in order
  other,  \* a second invocation in the same process, suspended at an await
  module  \* the module-level objects, which outlive an invocation

vars == <<h, pc, query, env, calls, last, loc, sent, other, module>>

NoReply == [status |-> -1, body |-> NullRec]

NoLoc ==
  [ filings |-> <<>>, i |-> 0, url |-> NullRec, html |-> NullRec,
    cik |-> Undefined, cusip |-> Undefined ]

\* const issuerMap: map first 6 characters of CUSIP -> CIK (the same map in part_000,
\* part_004 and part_005).
issuerMap ==
  [k \in { <<"4","8","1","3","6","H">>, <<"4","8","1","3","4","K">>, <<"4","6","6","4","7","P">> }
     |-> <<"1","9","6","1","7">>]

\* An invocation of handler variant v as it starts.
Invocation(v, q, e) ==
  [ h |-> v, pc |-> "start", query |-> q, env |-> e, calls |-> <<>>,
    last |-> NoReply, loc |-> NoLoc, sent |-> <<>> ]

\* No second invocation.
NoRequest == Invocation("none", NullRec, NullRec)

Init ==
  /\ h \in Handlers
  /\ pc = "start"
  /\ query \in QueriesOf(h)
  /\ env \in EnvsOf(h)
  /\ calls = <<>>
  /\ last = NoReply
  /\ loc = NoLoc
  /\ sent = <<>>
  /\ other = NoRequest
  /\ module = [issuerMap |-> issuerMap]

\* A handler that memoises the request's CUSIP in the module-level map.
OwnStateOnly_cachesCusip ==
  /\ other' = other
  /\ module' = [module EXCEPT !.issuerMap =
                  [k \in DOMAIN module.issuerMap \cup {query.cusip} |-> <<"0">>]]

\* No statement of a handler assigns to a module-level object or reaches
\* another invocation's variables: a step changes its own invocation only.
OwnStateOnly == UNCHANGED <<other, module>>

\* A message text: its literal parts in order and, for a template literal,
\* the values interpolated between them.
Msg(parts) == [text |-> parts, subst |-> <<>>]
Template(parts, values) == [text |-> parts, subst |-> values]

\* res.status(status).json(body), the handler returning after it.
Respond(status, body) ==
  /\ sent' = Append(sent, [status |-> status, body |-> body])
  /\ pc' = "done"
  /\ OwnStateOnly

\* A response sent before any further call is issued.
RespondOnly(status, body) == Respond(status, body) /\ calls' = calls

\* await fetch(url, ...): the call is issued and the handler waits at `at`.
\* `text` is the document text the request body carries (NullRec: none).
Post(url, auth, key, text, at) ==
  /\ calls' = Append(calls, [url |-> url, auth |-> auth, key |-> key, text |-> text])
  /\ pc' = at
  /\ sent' = sent
  /\ OwnStateOnly

Fetch(url, auth, key, at) == Post(url, auth, key, NullRec, at)

\* array.find: of the indices `hits` of the elements that satisfy the
\* predicate, the first; 0 for none.
find(hits) ==
  IF hits = {} THEN 0 ELSE CHOOSE i \in hits : \A j \in hits : i <= j

\* it.name || ""
nameOrEmpty(it) == IF Truthy(it.name) THEN it.name ELSE <<>>

IndexJson == <<"i","n","d","e","x",".","j","s","o","n">>

\* `${prefix}/${cik}/${acc}/${file}`
EdgarUrl(cik, acc, file) == [prefix |-> "https://www.sec.gov/Archives/edgar/data", path |-> <<cik, acc, file>>]

\* ------------------------------------------------- src/api/filing-html.js

\* /\.html?$/i.test(name)
isHtmlName(n) ==
  endsWith(toLowerCase(n), <<".","h","t","m">>)
  \/ endsWith(toLowerCase(n), <<".","h","t","m","l">>)

FilingHtml_is424b2(it) ==
  isHtmlName(nameOrEmpty(it))
  /\ includes(toLowerCase(nameOrEmpty(it)), <<"4","2","4","b","2">>)

FilingHtml_isFwp(it) ==
  isHtmlName(nameOrEmpty(it))
  /\ includes(toLowerCase(nameOrEmpty(it)), <<"f","w","p">>)

\* The index of the document picked from the listing, 0 for none.
FilingHtml_doc(items) ==
  LET is424b2 == find({i \in DOMAIN items : FilingHtml_is424b2(items[i])})
      isFwp == find({i \in DOMAIN items : FilingHtml_isFwp(items[i])})
      isHtml == find({i \in DOMAIN items : isHtmlName(nameOrEmpty(items[i]))})
  IN IF is424b2 # 0 THEN is424b2 ELSE IF isFwp # 0 THEN isFwp ELSE isHtml

FilingHtml_previewLength == 4000

FilingHtml_preview(htmlText) ==
  IF length(htmlText) > FilingHtml_previewLength
  THEN concat(slice0(htmlText, FilingHtml_previewLength),
              <<"\n",".",".",".","[","t","r","u","n","c","a","t","e","d","]",".",".",".">>)
  ELSE htmlText

\* The CIK as sent, leading zeros and all.
FilingHtml_cikTrimmed_asSent(cik) == cik

FilingHtml_cikTrimmed(cik) == stringOfParseInt(cik)

FilingHtml_Start ==
  /\ h = "filing-html" /\ pc = "start"
  /\ UNCHANGED <<h, query, env, last, loc>>
  /\ IF ~Truthy(query.accessionNo) \/ ~Truthy(query.cik)
     THEN /\ Respond(400, [message |-> Msg(<<"Missing required query params. Example: /api/filing-html?accessionNo=0001213900-25-104551&cik=19617">>)])
          /\ calls' = calls
     ELSE Fetch(EdgarUrl(FilingHtml_cikTrimmed(query.cik),
                         removeDashes(query.accessionNo), IndexJson),
                "none", Undefined, "index")

FilingHtml_catch ==
  Respond(500, [message |-> Msg(<<"Internal server error in /api/filing-html">>),
                error |-> "err.toString()"])

FilingHtml_Index ==
  /\ h = "filing-html" /\ pc = "index"
  /\ UNCHANGED <<h, query, env, loc>>
  /\ \E r \in IndexReplies :
       LET indexUrl == calls[Len(calls)].url
           items == IF r.body.kind = "object" /\ r.body.isArray
                    THEN r.body.item ELSE <<>>
           doc == FilingHtml_doc(items)
       IN /\ last' = r
          /\ IF rejected(r) THEN FilingHtml_catch /\ calls' = calls
             ELSE IF ~ok(r)
             THEN /\ Respond(r.status,
                             [message |-> Msg(<<"Failed to fetch SEC index.json">>),
                              status |-> r.status, indexUrl |-> indexUrl,
                              body |-> r.body])
                  /\ calls' = calls
             ELSE IF r.body.kind = "text" THEN FilingHtml_catch /\ calls' = calls
             ELSE IF Len(items) = 0
             THEN /\ Respond(404,
                             [message |-> Msg(<<"No files listed in SEC index.json for this filing.">>),
                              indexUrl |-> indexUrl, indexData |-> r.body])
                  /\ calls' = calls
             ELSE IF doc = 0
             THEN /\ Respond(404,
                             [message |-> Msg(<<"Could not find an HTML document for this filing in index.json.">>),
                              indexUrl |-> indexUrl,
                              files |-> [i \in 1..Len(items) |-> items[i].name]])
                  /\ calls' = calls
             ELSE Fetch(EdgarUrl(indexUrl.path[1], indexUrl.path[2], items[doc].name),
                        "none", Undefined, "doc")

FilingHtml_Doc ==
  /\ h = "filing-html" /\ pc = "doc"
  /\ UNCHANGED <<h, query, env, loc, calls>>
  /\ \E r \in DocReplies :
       LET htmlUrl == calls[Len(calls)].url
       IN /\ last' = r
          /\ IF rejected(r) THEN FilingHtml_catch
             ELSE IF ~ok(r)
             THEN Respond(r.status,
                          [message |-> Msg(<<"Failed to fetch the filing HTML from sec.gov">>),
                           status |-> r.status, htmlUrl |-> htmlUrl,
                           body |-> r.body])
             ELSE Respond(200,
                          [source |-> "sec.gov",
                           accessionNo |-> query.accessionNo,
                           cik |-> htmlUrl.path[1],
                           htmlUrl |-> htmlUrl,
                           htmlFileName |-> htmlUrl.path[3],
                           htmlPreview |-> FilingHtml_preview(r.body),
                           htmlLength |-> length(r.body),
                           message |-> Msg(<<"Fetched filing HTML from sec.gov successfully.">>)])

\* ----------------------------------------------- src/api/analyze-cusip.js

FullTextSearch == [prefix |-> "https://api.sec-api.io/full-text-search", path |-> <<>>]

\* The first handler of the file (lines 1-117) with fetchEdgarHtml.

AC1_catch ==
  Respond(500, [message |-> Msg(<<"Internal server error in /api/analyze-cusip">>),
                error |-> "err.toString()"])

AC1_Start ==
  /\ h = "analyze-cusip#1" /\ pc = "start"
  /\ UNCHANGED <<h, query, env, last, loc>>
  /\ IF ~Truthy(query.cusip)
     THEN RespondOnly(400, [message |-> Msg(<<"CUSIP missing in query string, e.g. ?cusip=48136H7D4">>)])
     ELSE IF ~Truthy(env.SEC_API_KEY)
     THEN RespondOnly(500, [message |-> Msg(<<"SEC_API_KEY", " environment variable is not set in Vercel.">>)])
     ELSE Fetch(FullTextSearch, "header", env.SEC_API_KEY, "search")

\* /\.htm$/i.test(name)
isHtmName(n) == endsWith(toLowerCase(n), <<".","h","t","m">>)

fetchEdgarHtml_is424b(f) ==
  isHtmName(nameOrEmpty(f))
  /\ includes(toLowerCase(nameOrEmpty(f)), <<"4","2","4","b">>)

\* The index of the primary document of a non-empty listing.
fetchEdgarHtml_primary(items) ==
  LET is424b == find({i \in DOMAIN items : fetchEdgarHtml_is424b(items[i])})
      isHtm == find({i \in DOMAIN items : isHtmName(nameOrEmpty(items[i]))})
  IN IF is424b # 0 THEN is424b ELSE IF isHtm # 0 THEN isHtm ELSE 1

fetchEdgarHtml_cik(cikRaw) == stringOfParseInt(cikRaw)

fetchEdgarHtml_previewLength == 2000

\* The 200 response of the handler, with what fetchEdgarHtml returned.
AC1_found(htmlUrl, htmlPreview) ==
  Respond(200,
    [source |-> "sec-api.io",
     cusip |-> query.cusip,
     filingsCount |-> Len(loc.filings),
     filingMeta |-> [accessionNo |-> orNull(loc.filings[1].accessionNo),
                     cik |-> orNull(loc.filings[1].cik)],
     htmlUrl |-> htmlUrl,
     htmlPreview |-> htmlPreview,
     message |-> IF htmlUrl # NullRec
                 THEN Msg(<<"Found at least one filing containing this CUSIP and fetched HTML from EDGAR.">>)
                 ELSE Msg(<<"Found at least one filing containing this CUSIP via full-text search, but HTML fetch may have failed.">>)])

AC1_Search ==
  /\ h = "analyze-cusip#1" /\ pc = "search"
  /\ UNCHANGED <<h, query, env>>
  /\ \E r \in SearchReplies :
       LET filings == IF r.body.isArray THEN r.body.filings ELSE <<>>
       IN /\ last' = r
          /\ IF rejected(r) THEN AC1_catch /\ calls' = calls /\ loc' = loc
             ELSE IF ~ok(r)
             THEN /\ RespondOnly(r.status,
                                 [message |-> Msg(<<"sec-api.io returned a non-OK status">>),
                                  status |-> r.status, body |-> r.body])
                  /\ loc' = loc
             ELSE IF r.body.kind = "text"
             THEN /\ RespondOnly(500,
                                 [message |-> Msg(<<"Could not parse JSON from sec-api.io">>),
                                  raw |-> r.body])
                  /\ loc' = loc
             ELSE IF r.body.kind = "null"
             THEN AC1_catch /\ calls' = calls /\ loc' = loc
             ELSE IF Len(filings) = 0
             THEN /\ RespondOnly(404,
                                 [source |-> "sec-api.io", cusip |-> query.cusip,
                                  filingsCount |-> 0, filingMeta |-> NullRec,
                                  message |-> Msg(<<"No filings found for this CUSIP (full-text search).">>),
                                  raw |-> r.body])
                  /\ loc' = loc
             ELSE /\ loc' = [loc EXCEPT !.filings = filings]
                  /\ IF Truthy(filings[1].accessionNo) /\ Truthy(filings[1].cik)
                     THEN Fetch(EdgarUrl(fetchEdgarHtml_cik(filings[1].cik),
                                         removeDashes(filings[1].accessionNo), IndexJson),
                                "none", Undefined, "index")
                     ELSE /\ calls' = calls
                          /\ Respond(200,
                               [source |-> "sec-api.io",
                                cusip |-> query.cusip,
                                filingsCount |-> Len(filings),
                                filingMeta |-> [accessionNo |-> orNull(filings[1].accessionNo),
                                                cik |-> orNull(filings[1].cik)],
                                htmlUrl |-> NullRec,
                                htmlPreview |-> NullRec,
                                message |-> Msg(<<"Found at least one filing containing this CUSIP via full-text search, but HTML fetch may have failed.">>)])

\* fetchEdgarHtml from its index.json request to its document request.
AC1_Index ==
  /\ h = "analyze-cusip#1" /\ pc = "index"
  /\ UNCHANGED <<h, query, env, loc>>
  /\ \E r \in IndexReplies :
       LET indexUrl == calls[Len(calls)].url
           items == IF r.body.kind = "object" /\ r.body.isArray
                    THEN r.body.item ELSE <<>>
       IN /\ last' = r
          /\ IF \/ rejected(r) \/ ~ok(r) \/ r.body.kind = "text"
                \/ Len(items) = 0
                \/ ~Truthy(items[fetchEdgarHtml_primary(items)].name)
             THEN AC1_found(NullRec, NullRec) /\ calls' = calls
             ELSE Fetch(EdgarUrl(indexUrl.path[1], indexUrl.path[2],
                                 items[fetchEdgarHtml_primary(items)].name),
                        "none", Undefined, "doc")

\* fetchEdgarHtml from its document request to the handler's response.
AC1_Doc ==
  /\ h = "analyze-cusip#1" /\ pc = "doc"
  /\ UNCHANGED <<h, query, env, loc, calls>>
  /\ \E r \in DocReplies :
       /\ last' = r
       /\ IF rejected(r) \/ ~ok(r)
          THEN AC1_found(NullRec, NullRec)
          ELSE AC1_found(calls[Len(calls)].url,
                         slice0(r.body, fetchEdgarHtml_previewLength))

\* The second handler of the file (lines 196-368).

AC2_catch ==
  Respond(500, [message |-> Msg(<<"Internal server error in /api/analyze-cusip">>),
                error |-> "err.toString()"])

AC2_Start ==
  /\ h = "analyze-cusip#2" /\ pc = "start"
  /\ UNCHANGED <<h, query, env, last, loc>>
  /\ IF ~Truthy(query.cusip)
     THEN RespondOnly(400, [message |-> Msg(<<"CUSIP missing in query string, e.g. ?cusip=48136H7D4">>)])
     ELSE IF ~Truthy(env.SEC_API_KEY)
     THEN RespondOnly(500, [message |-> Msg(<<"SEC_API_KEY", " environment variable is not set in Vercel.">>)])
     ELSE Fetch(FullTextSearch, "header", env.SEC_API_KEY, "search")

AC2_cikNoZeros(cikRaw) == stripLeadingZeros(cikRaw)

\* typeof it.name === "string" && (name ends with .htm or .html, lower-cased)
AC2_isHtmlItem(it) ==
  /\ it.name # Undefined
  /\ \/ endsWith(toLowerCase(it.name), <<".","h","t","m">>)
     \/ endsWith(toLowerCase(it.name), <<".","h","t","m","l">>)

\* A response that reports the search result's own link, never the one
\* inferred from the directory listing.
AC2_found_searchLinkOnly(filings, linkToHtml, htmlFromIndex) ==
  Respond(200,
    [source |-> "sec-api.io",
     cusip |-> query.cusip,
     filingsCount |-> Len(filings),
     filingMeta |-> [accessionNo |-> orNull(filings[1].accessionNo),
                     cik |-> orNull(filings[1].cik)],
     linkToHtml |-> filings[1].linkToHtml,
     htmlFromSecIndex |-> htmlFromIndex,
     message |-> Msg(<<"Found at least one filing containing this CUSIP via full-text search.">>)])

AC2_found(filings, linkToHtml, htmlFromIndex) ==
  Respond(200,
    [source |-> "sec-api.io",
     cusip |-> query.cusip,
     filingsCount |-> Len(filings),
     filingMeta |-> [accessionNo |-> orNull(filings[1].accessionNo),
                     cik |-> orNull(filings[1].cik)],
     linkToHtml |-> linkToHtml,
     htmlFromSecIndex |-> htmlFromIndex,
     message |-> Msg(<<"Found at least one filing containing this CUSIP via full-text search.">>)])

AC2_Search ==
  /\ h = "analyze-cusip#2" /\ pc = "search"
  /\ UNCHANGED <<h, query, env>>
  /\ \E r \in SearchReplies :
       LET filings == IF r.body.isArray THEN r.body.filings ELSE <<>>
       IN /\ last' = r
          /\ IF rejected(r) THEN AC2_catch /\ calls' = calls /\ loc' = loc
             ELSE IF ~ok(r)
             THEN /\ RespondOnly(r.status,
                                 [message |-> Msg(<<"sec-api.io returned a non-OK status">>),
                                  status |-> r.status, body |-> r.body])
                  /\ loc' = loc
             ELSE IF r.body.kind = "text"
             THEN /\ RespondOnly(500,
                                 [message |-> Msg(<<"Could not parse JSON from sec-api.io">>),
                                  raw |-> r.body])
                  /\ loc' = loc
             ELSE IF r.body.kind = "null"
             THEN AC2_catch /\ calls' = calls /\ loc' = loc
             ELSE IF Len(filings) = 0
             THEN /\ RespondOnly(404,
                                 [source |-> "sec-api.io", cusip |-> query.cusip,
                                  filingsCount |-> 0, filingMeta |-> NullRec,
                                  message |-> Msg(<<"No filings found for this CUSIP (full-text search).">>),
                                  raw |-> r.body])
                  /\ loc' = loc
             ELSE /\ loc' = [loc EXCEPT !.filings = filings]
                  /\ IF /\ filings[1].linkToHtml = NullRec
                        /\ Truthy(filings[1].accessionNo) /\ Truthy(filings[1].cik)
                     THEN Fetch(EdgarUrl(AC2_cikNoZeros(filings[1].cik),
                                         removeDashes(filings[1].accessionNo), IndexJson),
                                "none", Undefined, "index")
                     ELSE /\ calls' = calls
                          /\ AC2_found(filings, filings[1].linkToHtml, NullRec)

AC2_Index ==
  /\ h = "analyze-cusip#2" /\ pc = "index"
  /\ UNCHANGED <<h, query, env, loc, calls>>
  /\ \E r \in IndexReplies :
       LET indexUrl == calls[Len(calls)].url
           items == IF r.body.kind = "object" /\ r.body.isArray
                    THEN r.body.item ELSE <<>>
           htmlItem == find({i \in DOMAIN items : AC2_isHtmlItem(items[i])})
       IN /\ last' = r
          /\ IF rejected(r) \/ ~ok(r) \/ r.body.kind = "text" \/ htmlItem = 0
             THEN AC2_found(loc.filings, NullRec, NullRec)
             ELSE AC2_found(loc.filings,
                            EdgarUrl(indexUrl.path[1], indexUrl.path[2], items[htmlItem].name),
                            EdgarUrl(indexUrl.path[1], indexUrl.path[2], items[htmlItem].name))

\* ------------------------------------------- src/unnamed/part_000:95-202

P0b_catch ==
  Respond(500, [message |-> Msg(<<"Internal server error in /api/analyze-cusip">>),
                error |-> "err.toString()"])

P0b_Start ==
  /\ h = "part_000#2" /\ pc = "start"
  /\ UNCHANGED <<h, query, env, last, loc>>
  /\ IF ~Truthy(query.cusip)
     THEN RespondOnly(400, [message |-> Msg(<<"CUSIP missing in query string, e.g. ?cusip=48136H7D4">>)])
     ELSE IF ~Truthy(env.SEC_API_KEY)
     THEN RespondOnly(500, [message |-> Msg(<<"SEC_API_KEY", " environment variable is not set in Vercel.">>)])
     ELSE Fetch(FullTextSearch, "header", env.SEC_API_KEY, "search")

P0b_Search ==
  /\ h = "part_000#2" /\ pc = "search"
  /\ UNCHANGED <<h, query, env, loc, calls>>
  /\ \E r \in SearchReplies :
       LET filings == IF r.body.isArray THEN r.body.filings ELSE <<>>
       IN /\ last' = r
          /\ IF rejected(r) THEN P0b_catch
             ELSE IF ~ok(r)
             THEN Respond(r.status,
                          [message |-> Msg(<<"sec-api.io returned a non-OK status">>),
                           status |-> r.status, body |-> r.body])
             ELSE IF r.body.kind = "text"
             THEN Respond(500,
                          [message |-> Msg(<<"Could not parse JSON from sec-api.io">>),
                           raw |-> r.body])
             ELSE IF r.body.kind = "null" THEN P0b_catch
             ELSE IF Len(filings) = 0
             THEN Respond(404,
                          [source |-> "sec-api.io", cusip |-> query.cusip,
                           filingsCount |-> 0, filingMeta |-> NullRec,
                           message |-> Msg(<<"No 424B2 / FWP filings found for this CUSIP (full-text search).">>),
                           raw |-> r.body])
             ELSE Respond(200,
                          [source |-> "sec-api.io", cusip |-> query.cusip,
                           filingsCount |-> Len(filings),
                           filingMeta |-> [accessionNo |-> orNull(filings[1].accessionNo),
                                           cik |-> orNull(filings[1].cik)],
                           linkToHtml |-> filings[1].linkToHtml,
                           message |-> Msg(<<"Found at least one filing containing this CUSIP via full-text search.">>)])

\* ------------------------------------------------- src/unnamed/part_001

\* The stub: no outbound call, a fixed sample note.
P1_Start ==
  /\ h = "part_001" /\ pc = "start"
  /\ UNCHANGED <<h, query, env, last, loc>>
  /\ IF ~Truthy(query.cusip)
     THEN RespondOnly(400, [error |-> Msg(<<"Missing \"cusip\" query parameter.">>)])
     ELSE RespondOnly(200,
            [cusip |-> query.cusip,
             issuer |-> "Example Bank N.A.",
             payoff_today |-> [amount_per_1000 |-> [number |-> "1032.5"],
                               pct_of_par |-> [number |-> "103.25"],
                               status |-> "Above par (illustrative)"]])

\* ------------------------------------------------- src/unnamed/part_002

SdkFullTextSearch == [prefix |-> "sec-api:fullTextSearchApi.getFilings", path |-> <<>>]

\* The key was handed to the SDK when the module loaded (line 6), whatever
\* process.env.SEC_API_KEY held.
P2_Start ==
  /\ h = "part_002" /\ pc = "start"
  /\ UNCHANGED <<h, query, env, last, loc>>
  /\ IF ~Truthy(query.cusip)
     THEN RespondOnly(400, [error |-> Msg(<<"Missing 'cusip' query parameter.">>)])
     ELSE Fetch(SdkFullTextSearch, "sdk", env.SEC_API_KEY, "search")

\* A catch that logs the error and sends nothing.
P2_catch_silent == pc' = "done" /\ sent' = sent /\ OwnStateOnly

P2_catch ==
  Respond(500, [error |-> Msg(<<"Internal server error talking to sec-api.io">>),
                details |-> "err.message"])

\* getFilings resolves to the filings themselves: null, a non-array (whose
\* [0] is undefined, so reading its accessionNo throws) or an array.
P2_Search ==
  /\ h = "part_002" /\ pc = "search"
  /\ UNCHANGED <<h, query, env, loc, calls>>
  /\ \E r \in SdkSearchReplies :
       /\ last' = r
       /\ IF rejected(r) THEN P2_catch
          ELSE IF r.body.kind = "null" \/ (r.body.isArray /\ Len(r.body.filings) = 0)
          THEN Respond(404,
                       [source |-> "sec-api.io", cusip |-> query.cusip,
                        filingMeta |-> NullRec, note |-> NullRec,
                        message |-> Msg(<<"No 424B2 / FWP filings found for this CUSIP via full-text search.">>)])
          ELSE IF ~r.body.isArray THEN P2_catch
          ELSE Respond(200,
                       [source |-> "sec-api.io", cusip |-> query.cusip,
                        filingMeta |-> [accessionNo |-> r.body.filings[1].accessionNo,
                                        cik |-> r.body.filings[1].cik,
                                        linkToHtml |-> r.body.filings[1].linkToHtml],
                        note |-> NullRec,
                        message |-> Msg(<<"Filing found via full-text search. Term extraction not implemented yet.">>)])

\* ------------------------------------------------- src/unnamed/part_003

\* `${FULL_TEXT_URL}?token=${token}`: the key travels in the URL.
P3_catch ==
  Respond(500, [message |-> Msg(<<"Internal server error">>), error |-> "err.toString()"])

\* A handler that looks for the API key before it looks at the query.
P3_Start_keyFirst ==
  /\ h = "part_003" /\ pc = "start"
  /\ UNCHANGED <<h, query, env, last, loc>>
  /\ IF ~Truthy(env.SEC_API_KEY)
     THEN RespondOnly(500, [message |-> Msg(<<"SEC_API_KEY", " is not set in environment variables on Vercel">>)])
     ELSE IF ~Truthy(query.cusip)
     THEN RespondOnly(400, [message |-> Msg(<<"CUSIP query param is required">>)])
     ELSE Fetch(FullTextSearch, "token", env.SEC_API_KEY, "search")

P3_Start ==
  /\ h = "part_003" /\ pc = "start"
  /\ UNCHANGED <<h, query, env, last, loc>>
  /\ IF ~Truthy(query.cusip)
     THEN RespondOnly(400, [message |-> Msg(<<"CUSIP query param is required">>)])
     ELSE IF ~Truthy(env.SEC_API_KEY)
     THEN RespondOnly(500, [message |-> Msg(<<"SEC_API_KEY", " is not set in environment variables on Vercel">>)])
     ELSE Fetch(FullTextSearch, "token", env.SEC_API_KEY, "search")

P3_previewLength == 5000

P3_preview(htmlText) ==
  IF length(htmlText) > P3_previewLength
  THEN concat(slice0(htmlText, P3_previewLength), <<".",".",".">>)
  ELSE htmlText

\* res.json(...) without res.status: status 200.
P3_found(filings, htmlPreview) ==
  Respond(200,
    [source |-> "sec-api.io", cusip |-> query.cusip,
     filingsCount |-> Len(filings),
     filingMeta |-> [accessionNo |-> filings[1].accessionNo,
                     cik |-> filings[1].cik,
                     linkToHtml |-> filings[1].linkToHtml],
     htmlPreview |-> htmlPreview,
     message |-> Msg(<<"Found at least one filing containing this CUSIP via full-text search.">>)])

P3_Search ==
  /\ h = "part_003" /\ pc = "search"
  /\ UNCHANGED <<h, query, env>>
  /\ \E r \in SearchReplies :
       LET filings == IF r.body.isArray THEN r.body.filings ELSE <<>>
       IN /\ last' = r
          /\ IF rejected(r) THEN P3_catch /\ calls' = calls /\ loc' = loc
             ELSE IF ~ok(r)
             THEN /\ RespondOnly(502,
                                 [message |-> Msg(<<"Error calling sec-api full-text-search">>),
                                  status |-> r.status, body |-> r.body])
                  /\ loc' = loc
             ELSE IF r.body.kind \in {"text", "null"}
             THEN P3_catch /\ calls' = calls /\ loc' = loc
             ELSE IF Len(filings) = 0
             THEN /\ RespondOnly(404,
                                 [source |-> "sec-api.io", cusip |-> query.cusip,
                                  filingsCount |-> 0, filingMeta |-> NullRec,
                                  message |-> Msg(<<"No 424B2 / FWP filings found for this CUSIP (full-text search).">>)])
                  /\ loc' = loc
             ELSE /\ loc' = [loc EXCEPT !.filings = filings]
                  /\ IF filings[1].linkToHtml # NullRec
                     THEN Fetch(filings[1].linkToHtml, "none", Undefined, "doc")
                     ELSE P3_found(filings, NullRec) /\ calls' = calls

P3_Doc ==
  /\ h = "part_003" /\ pc = "doc"
  /\ UNCHANGED <<h, query, env, loc, calls>>
  /\ \E r \in DocReplies :
       /\ last' = r
       /\ IF rejected(r) \/ ~ok(r)
          THEN P3_found(loc.filings, NullRec)
          ELSE P3_found(loc.filings, P3_preview(r.body))

\* --------------------------------------------- src/unnamed/part_004:6-96

P4a_catch ==
  Respond(500, [message |-> Msg(<<"Internal server error">>), error |-> "err.message"])

P4a_Start ==
  /\ h = "part_004#1" /\ pc = "start"
  /\ UNCHANGED <<h, query, env, last, loc>>
  /\ IF ~Truthy(query.cusip)
     THEN RespondOnly(400, [error |-> Msg(<<"Missing ?cusip= query parameter">>)])
     ELSE IF ~Truthy(env.SEC_API_KEY)
     THEN RespondOnly(500, [error |-> Msg(<<"SEC_API_KEY", " environment variable is not set on Vercel.">>)])
     ELSE Fetch(FullTextSearch, "token", env.SEC_API_KEY, "search")

P4a_Search ==
  /\ h = "part_004#1" /\ pc = "search"
  /\ UNCHANGED <<h, query, env, loc, calls>>
  /\ \E r \in SearchReplies :
       LET filings == IF r.body.isArray THEN r.body.filings ELSE <<>>
       IN /\ last' = r
          /\ IF rejected(r) THEN P4a_catch
             ELSE IF ~ok(r)
             THEN Respond(500,
                          [message |-> Msg(<<"SEC-API full-text search HTTP error">>),
                           status |-> r.status, body |-> r.body])
             ELSE IF r.body.kind \in {"text", "null"} THEN P4a_catch
             ELSE IF Len(filings) = 0
             THEN Respond(404,
                          [source |-> "sec-api.io", cusip |-> query.cusip,
                           message |-> Msg(<<"No 424B2 / FWP filings found for this CUSIP via full-text search.">>),
                           rawResponseSnippet |-> r.body])
             ELSE Respond(200,
                          [source |-> "sec-api.io", cusip |-> query.cusip,
                           filingsCount |-> Len(filings),
                           filingMeta |-> [accessionNo |-> filings[1].accessionNo,
                                           cik |-> filings[1].cik,
                                           linkToHtml |-> filings[1].linkToHtml],
                           message |-> Msg(<<"Found at least one filing containing this CUSIP via full-text search.">>)])

\* -------------------------------------------- src/unnamed/part_000:1-85

\* A lookup that knows every prefix.
issuerOf_everyPrefix(prefix) == <<"1","9","6","1","7">>

\* issuerMap[prefix], read from the module-level object
issuerOf(prefix) ==
  IF prefix \in DOMAIN module.issuerMap THEN module.issuerMap[prefix] ELSE Undefined

SdkSearch == [prefix |-> "sec-api:secApi.search", path |-> <<>>]

\* cusip.substring(0, 6).toUpperCase()
P0a_prefix(cusip) == toUpperCase(substring0(cusip, 6))

P0a_catch ==
  Respond(500, [message |-> Msg(<<"Internal server error">>), error |-> "err.toString()"])

\* new SecAPI(process.env.SEC_API_KEY) ran when the module loaded (line 3).
P0a_Start ==
  /\ h = "part_000#1" /\ pc = "start"
  /\ UNCHANGED <<h, query, env, last, loc>>
  /\ IF ~Truthy(query.cusip)
     THEN RespondOnly(400, [error |-> Msg(<<"CUSIP missing">>)])
     ELSE IF ~Truthy(issuerOf(P0a_prefix(query.cusip)))
     THEN RespondOnly(404,
            [message |-> Template(<<"Unknown issuer prefix ", ". Add to issuerMap.">>, <<P0a_prefix(query.cusip)>>),
             cusip |-> query.cusip])
     ELSE Fetch(SdkSearch, "sdk", env.SEC_API_KEY, "search")

P0a_Search ==
  /\ h = "part_000#1" /\ pc = "search"
  /\ UNCHANGED <<h, query, env>>
  /\ \E r \in SdkSearchReplies :
       /\ last' = r
       /\ IF rejected(r) \/ r.body.kind = "null"
          THEN P0a_catch /\ calls' = calls /\ loc' = loc
          \* `for (const f of filings.filings)` throws on what is no array
          ELSE IF ~r.body.isArray /\ r.body.filings # <<>>
          THEN P0a_catch /\ calls' = calls /\ loc' = loc
          ELSE IF Len(r.body.filings) = 0
          THEN /\ RespondOnly(404,
                    [message |-> Msg(<<"No pricing supplements found for issuer">>),
                     cusip |-> query.cusip,
                     cik |-> issuerOf(P0a_prefix(query.cusip))])
               /\ loc' = loc
          ELSE /\ loc' = [loc EXCEPT !.filings = r.body.filings, !.i = 1]
               /\ Fetch(r.body.filings[1].linkToHtml, "sdk", env.SEC_API_KEY, "scan")

P0a_previewLength == 1000

\* One turn of the loop over filings.filings: the awaited secApi.filing.
P0a_Scan ==
  /\ h = "part_000#1" /\ pc = "scan"
  /\ UNCHANGED <<h, query, env>>
  /\ \E r \in SdkDocReplies :
       /\ last' = r
       /\ IF rejected(r) THEN P0a_catch /\ calls' = calls /\ loc' = loc
          ELSE IF length(r.body) > 0 /\ htmlIncludes(r.body, query.cusip)
          THEN /\ RespondOnly(200,
                    [source |-> "sec-api.io", cusip |-> query.cusip,
                     cik |-> issuerOf(P0a_prefix(query.cusip)),
                     filingMeta |-> loc.filings[loc.i],
                     htmlPreview |-> concat(slice0(r.body, P0a_previewLength), <<".",".",".">>),
                     message |-> Msg(<<"Found pricing supplement containing this CUSIP">>)])
               /\ loc' = loc
          ELSE IF loc.i < Len(loc.filings)
          THEN /\ loc' = [loc EXCEPT !.i = loc.i + 1]
               /\ Fetch(loc.filings[loc.i + 1].linkToHtml, "sdk", env.SEC_API_KEY, "scan")
          ELSE /\ RespondOnly(404,
                    [message |-> Msg(<<"CUSIP not found in any recent pricing supplements for issuer">>),
                     cusip |-> query.cusip,
                     cik |-> issuerOf(P0a_prefix(query.cusip))])
               /\ loc' = loc

\* ------------------------------------------------- src/unnamed/part_005

P5_prefix(cusip) == toUpperCase(substring0(cusip, 6))

P5_catch ==
  Respond(500, [message |-> Msg(<<"Internal server error">>), error |-> "err.toString()"])

\* require("sec-api") is used as it is: no key is ever handed to it.
P5_Start ==
  /\ h = "part_005" /\ pc = "start"
  /\ UNCHANGED <<h, query, env, last, loc>>
  /\ IF ~Truthy(query.cusip)
     THEN RespondOnly(400, [error |-> Msg(<<"CUSIP missing">>)])
     ELSE IF ~Truthy(issuerOf(P5_prefix(query.cusip)))
     THEN RespondOnly(404,
            [message |-> Template(<<"Unknown issuer prefix ", ". Add to issuerMap.">>, <<P5_prefix(query.cusip)>>),
             cusip |-> query.cusip])
     ELSE Fetch(SdkSearch, "sdk", Undefined, "search")

P5_Search ==
  /\ h = "part_005" /\ pc = "search"
  /\ UNCHANGED <<h, query, env>>
  /\ \E r \in SdkSearchReplies :
       /\ last' = r
       /\ IF rejected(r) \/ r.body.kind = "null"
          THEN P5_catch /\ calls' = calls /\ loc' = loc
          \* `for (const f of filings.filings)` throws on what is no array
          ELSE IF ~r.body.isArray /\ r.body.filings # <<>>
          THEN P5_catch /\ calls' = calls /\ loc' = loc
          ELSE IF Len(r.body.filings) = 0
          THEN /\ RespondOnly(404,
                    [message |-> Msg(<<"No pricing supplements found for this issuer">>),
                     cusip |-> query.cusip,
                     cik |-> issuerOf(P5_prefix(query.cusip))])
               /\ loc' = loc
          ELSE /\ loc' = [loc EXCEPT !.filings = r.body.filings, !.i = 1]
               /\ Fetch(r.body.filings[1].linkToHtml, "sdk", Undefined, "scan")

P5_snippetLength == 2000

\* A loop that, on a document without the CUSIP, fetches the same filing
\* again.
P5_Scan_sameFilingAgain ==
  /\ h = "part_005" /\ pc = "scan"
  /\ UNCHANGED <<h, query, env>>
  /\ \E r \in SdkDocReplies :
       /\ last' = r
       /\ IF rejected(r) THEN P5_catch /\ calls' = calls /\ loc' = loc
          ELSE IF length(r.body) > 0 /\ htmlIncludes(r.body, query.cusip)
          THEN /\ RespondOnly(200,
                    [source |-> "sec-api.io", cusip |-> query.cusip,
                     cik |-> issuerOf(P5_prefix(query.cusip)),
                     filingMeta |-> loc.filings[loc.i],
                     htmlSnippet |-> slice0(r.body, P5_snippetLength),
                     message |-> Msg(<<"Found pricing supplement containing this CUSIP">>)])
               /\ loc' = loc
          ELSE /\ loc' = loc
               /\ Fetch(loc.filings[loc.i].linkToHtml, "sdk", Undefined, "scan")

P5_Scan ==
  /\ h = "part_005" /\ pc = "scan"
  /\ UNCHANGED <<h, query, env>>
  /\ \E r \in SdkDocReplies :
       /\ last' = r
       /\ IF rejected(r) THEN P5_catch /\ calls' = calls /\ loc' = loc
          ELSE IF length(r.body) > 0 /\ htmlIncludes(r.body, query.cusip)
          THEN /\ RespondOnly(200,
                    [source |-> "sec-api.io", cusip |-> query.cusip,
                     cik |-> issuerOf(P5_prefix(query.cusip)),
                     filingMeta |-> loc.filings[loc.i],
                     htmlSnippet |-> slice0(r.body, P5_snippetLength),
                     message |-> Msg(<<"Found pricing supplement containing this CUSIP">>)])
               /\ loc' = loc
          ELSE IF loc.i < Len(loc.filings)
          THEN /\ loc' = [loc EXCEPT !.i = loc.i + 1]
               /\ Fetch(loc.filings[loc.i + 1].linkToHtml, "sdk", Undefined, "scan")
          ELSE /\ RespondOnly(404,
                    [message |-> Msg(<<"CUSIP not found in any recent pricing supplements">>),
                     cusip |-> query.cusip,
                     cik |-> issuerOf(P5_prefix(query.cusip))])
               /\ loc' = loc

\* ------------------------------------------ src/unnamed/part_004:98-259

\* cusipRaw.trim().toUpperCase()
P4b_cusip(cusipRaw) == toUpperCase(trim(cusipRaw))

P4b_prefix(cusipRaw) == substring0(P4b_cusip(cusipRaw), 6)

\* cik.toString().padStart(10, "0")
padCik10(cik) ==
  IF Len(cik) >= 10 THEN cik ELSE [i \in 1..(10 - Len(cik)) |-> "0"] \o cik

\* `https://data.sec.gov/submissions/CIK${cikPadded}.json`
SubmissionsUrl(cikPadded) ==
  [prefix |-> "https://data.sec.gov/submissions", path |-> <<<<"C","I","K">> \o cikPadded \o <<".","j","s","o","n">>>>]

P4b_catch ==
  Respond(500, [message |-> Msg(<<"Internal server error">>), error |-> "err.toString()"])

P4b_Start ==
  /\ h = "part_004#2" /\ pc = "start"
  /\ UNCHANGED <<h, query, env, last, loc>>
  /\ IF ~Truthy(query.cusip)
     THEN RespondOnly(400, [message |-> Msg(<<"CUSIP missing">>)])
     ELSE IF ~Truthy(issuerOf(P4b_prefix(query.cusip)))
     THEN RespondOnly(404,
            [message |-> Template(<<"Unknown issuer prefix ", ". Add to issuerMap in analyze-cusip.js.">>, <<P4b_prefix(query.cusip)>>),
             cusip |-> P4b_cusip(query.cusip)])
     ELSE Fetch(SubmissionsUrl(padCik10(issuerOf(P4b_prefix(query.cusip)))),
                "none", Undefined, "subs")

\* A selection that keeps every row, whatever its form.
P4b_candidates_unfiltered(rows) == rows

\* The rows whose form is 424B2 or FWP, in the order listed.
RECURSIVE P4b_candidates(_)
P4b_candidates(rows) ==
  IF rows = <<>> THEN <<>>
  ELSE IF Head(rows).form \in {"424B2", "FWP"}
  THEN <<Head(rows)>> \o P4b_candidates(Tail(rows))
  ELSE P4b_candidates(Tail(rows))

\* The document URL of a candidate: numericCik = parseInt(cikShort, 10).
P4b_htmlUrl(cikShort, candidate) ==
  EdgarUrl(stringOfParseInt(cikShort), removeDashes(candidate.accessionNo),
           candidate.primaryDoc)

P4b_Subs ==
  /\ h = "part_004#2" /\ pc = "subs"
  /\ UNCHANGED <<h, query, env>>
  /\ \E r \in SubsReplies :
       LET cikShort == issuerOf(P4b_prefix(query.cusip))
           candidates == P4b_candidates(r.body.rows)
       IN /\ last' = r
          /\ IF rejected(r) THEN P4b_catch /\ calls' = calls /\ loc' = loc
             ELSE IF ~ok(r)
             THEN /\ RespondOnly(502,
                       [message |-> Msg(<<"Error calling SEC submissions API">>),
                        status |-> r.status, body |-> r.body])
                  /\ loc' = loc
             ELSE IF r.body.kind \in {"text", "null"}
             THEN P4b_catch /\ calls' = calls /\ loc' = loc
             ELSE IF ~r.body.hasRecent
             THEN /\ RespondOnly(404,
                       [message |-> Msg(<<"No recent filings found in SEC submissions data">>),
                        cusip |-> P4b_cusip(query.cusip), cik |-> cikShort])
                  /\ loc' = loc
             ELSE IF Len(candidates) = 0
             THEN /\ RespondOnly(404,
                       [message |-> Msg(<<"No 424B2 / FWP filings found for this issuer in recent submissions.">>),
                        cusip |-> P4b_cusip(query.cusip), cik |-> cikShort])
                  /\ loc' = loc
             ELSE /\ loc' = [loc EXCEPT !.filings = candidates, !.i = 1]
                  /\ Fetch(P4b_htmlUrl(cikShort, candidates[1]), "none", Undefined, "scan")

P4b_previewLength == 1200

P4b_preview(html) ==
  IF length(html) > P4b_previewLength
  THEN concat(slice0(html, P4b_previewLength), <<".",".",".">>)
  ELSE html

\* One turn of the loop over the candidates: the awaited document request.
P4b_Scan ==
  /\ h = "part_004#2" /\ pc = "scan"
  /\ UNCHANGED <<h, query, env>>
  /\ \E r \in DocReplies :
       LET cikShort == issuerOf(P4b_prefix(query.cusip))
       IN /\ last' = r
          /\ IF rejected(r) THEN P4b_catch /\ calls' = calls /\ loc' = loc
             ELSE IF ok(r) /\ htmlIncludes(htmlToUpperCase(r.body), P4b_cusip(query.cusip))
             THEN /\ RespondOnly(200,
                       [source |-> "sec.gov", cusip |-> P4b_cusip(query.cusip),
                        cik |-> cikShort,
                        filingMeta |-> loc.filings[loc.i],
                        htmlPreview |-> P4b_preview(r.body),
                        message |-> Msg(<<"Found a pricing supplement whose HTML contains this CUSIP.">>)])
                  /\ loc' = loc
             ELSE IF loc.i < Len(loc.filings)
             THEN /\ loc' = [loc EXCEPT !.i = loc.i + 1]
                  /\ Fetch(P4b_htmlUrl(cikShort, loc.filings[loc.i + 1]),
                           "none", Undefined, "scan")
             ELSE /\ RespondOnly(404,
                       [source |-> "sec.gov", cusip |-> P4b_cusip(query.cusip),
                        cik |-> cikShort,
                        message |-> Msg(<<"Scanned recent 424B2/FWP filings for this issuer but did not find this CUSIP in the HTML.">>)])
                  /\ loc' = loc

\* ------------------------------------------------ src/api/parse-filing.js

ChatCompletions == [prefix |-> "https://api.openai.com/v1/chat/completions", path |-> <<>>]

\* `${baseUrl}/api/filing-html?accessionNo=${...}&cik=${...}`
FilingHtmlUrl(accessionNo, cik) ==
  [prefix |-> "${baseUrl}/api/filing-html", path |-> <<accessionNo, cik>>]

\* The first handler of the file (lines 1-194).

PF1_catch ==
  Respond(500, [message |-> Msg(<<"Internal server error in /api/parse-filing">>),
                error |-> "err.toString()"])

PF1_Start ==
  /\ h = "parse-filing#1" /\ pc = "start"
  /\ UNCHANGED <<h, query, env, last, loc>>
  /\ IF ~Truthy(query.cusip) \/ ~Truthy(query.accessionNo) \/ ~Truthy(query.cik)
     THEN RespondOnly(400, [message |-> Msg(<<"Missing required query params. Example: ?cusip=48136H7D4&accessionNo=0001213900-25-104551&cik=19617">>)])
     ELSE IF ~Truthy(env.OPENAI_API_KEY)
     THEN RespondOnly(500, [message |-> Msg(<<"OPENAI_API_KEY", " environment variable is not set in Vercel.">>)])
     ELSE Fetch(FilingHtmlUrl(query.accessionNo, query.cik), "none", Undefined, "filing")

PF1_modelLimit == 12000

PF1_Filing ==
  /\ h = "parse-filing#1" /\ pc = "filing"
  /\ UNCHANGED <<h, query, env>>
  /\ \E r \in FilingHtmlReplies :
       /\ last' = r
       /\ IF rejected(r) \/ r.body.kind = "text"
          THEN PF1_catch /\ calls' = calls /\ loc' = loc
          ELSE IF ~ok(r)
          THEN /\ RespondOnly(r.status,
                    [message |-> Msg(<<"Error fetching filing HTML via /api/filing-html">>),
                     filingUrl |-> calls[Len(calls)].url,
                     filingJson |-> r.body])
               /\ loc' = loc
          ELSE IF r.body.htmlPreview = NullRec \/ length(r.body.htmlPreview) = 0
          THEN /\ RespondOnly(500,
                    [message |-> Msg(<<"filing-html did not return htmlPreview.">>),
                     filingJson |-> r.body])
               /\ loc' = loc
          ELSE /\ loc' = [loc EXCEPT !.html = r.body.htmlPreview]
               /\ Post(ChatCompletions, "bearer", env.OPENAI_API_KEY,
                       slice0(r.body.htmlPreview, PF1_modelLimit), "ai")

\* jsonText.replace(/^```(?:json)?\s*/i, "")
PF1_stripOpen(s) ==
  LET a == IF startsWith(s, Fence) THEN SubSeq(s, 4, Len(s)) ELSE s
      b == IF startsWith(s, Fence) /\ startsWith(toLowerCase(a), <<"j","s","o","n">>)
           THEN SubSeq(a, 5, Len(a)) ELSE a
  IN IF startsWith(s, Fence) THEN trimStart(b) ELSE s

\* jsonText.replace(/```$/, "")
PF1_stripClose(s) ==
  IF endsWith(s, Fence) THEN SubSeq(s, 1, Len(s) - 3) ELSE s

\* A cleaning that cuts every content, fenced or not, from its first to
\* its last brace.
PF1_jsonText_alwaysBraces(content) ==
  LET jsonText == trim(content)
      firstBrace == indexOf(jsonText, <<"{">>)
      lastBrace == lastIndexOf(jsonText, <<"}">>)
  IN IF firstBrace # -1 /\ lastBrace # -1
     THEN SubSeq(jsonText, firstBrace + 1, lastBrace + 1)
     ELSE jsonText

\* The text handed to JSON.parse (lines 157-165).
PF1_jsonText(content) ==
  IF startsWith(trim(content), Fence)
  THEN trim(PF1_stripClose(PF1_stripOpen(trim(content))))
  ELSE trim(content)

PF1_Ai ==
  /\ h = "parse-filing#1" /\ pc = "ai"
  /\ UNCHANGED <<h, query, env, loc, calls>>
  /\ \E r \in AiReplies :
       /\ last' = r
       /\ IF rejected(r) THEN PF1_catch
          ELSE IF ~ok(r)
          THEN Respond(r.status,
                 [message |-> Msg(<<"OpenAI API returned a non-OK status">>),
                  status |-> r.status, body |-> r.body])
          ELSE IF r.body.kind = "text"
          THEN Respond(500,
                 [message |-> Msg(<<"Could not parse JSON from OpenAI response">>),
                  raw |-> r.body])
          ELSE IF ~Truthy(r.body.content)
          THEN Respond(500,
                 [message |-> Msg(<<"OpenAI response did not contain message.content as a string">>),
                  openaiData |-> r.body])
          ELSE IF ~JSONparse(PF1_jsonText(r.body.content)).ok
          THEN Respond(500,
                 [message |-> Msg(<<"Assistant did not return valid JSON in message.content. Check the prompt.">>),
                  assistantContent |-> r.body.content])
          ELSE Respond(200,
                 [source |-> "sec.gov + OpenAI",
                  cusip |-> query.cusip,
                  accessionNo |-> query.accessionNo,
                  cik |-> query.cik,
                  htmlPreviewLength |-> length(loc.html),
                  note |-> JSONparse(PF1_jsonText(r.body.content)).value])

\* The second handler of the file (lines 197-444).

PF2_catch ==
  Respond(500, [message |-> Msg(<<"Internal server error in /api/parse-filing">>),
                error |-> "err.toString()"])

PF2_cleanCik(cik) == stringOfParseInt(cik)

PF2_Start ==
  /\ h = "parse-filing#2" /\ pc = "start"
  /\ UNCHANGED <<h, query, env, last, loc>>
  /\ IF ~Truthy(query.cusip) \/ ~Truthy(query.accessionNo) \/ ~Truthy(query.cik)
     THEN RespondOnly(400,
            [message |-> Msg(<<"Missing required query params. Expected cusip, accessionNo, cik.">>),
             received |-> query])
     ELSE IF ~Truthy(env.OPENAI_API_KEY)
     THEN RespondOnly(500, [message |-> Msg(<<"OPENAI_API_KEY", " environment variable is not set in Vercel.">>)])
     ELSE Fetch(EdgarUrl(PF2_cleanCik(query.cik), removeDashes(query.accessionNo), IndexJson),
                "none", Undefined, "index")

\* typeof it.name === "string" && it.name.toLowerCase().endsWith(".htm")
PF2_isHtmFile(it) ==
  it.name # Undefined /\ endsWith(toLowerCase(it.name), <<".","h","t","m">>)

PF2_Index ==
  /\ h = "parse-filing#2" /\ pc = "index"
  /\ UNCHANGED <<h, query, env, loc>>
  /\ \E r \in IndexReplies :
       LET indexUrl == calls[Len(calls)].url
           items == IF r.body.kind = "object" /\ r.body.isArray
                    THEN r.body.item ELSE <<>>
           htmlFile == find({i \in DOMAIN items : PF2_isHtmFile(items[i])})
       IN /\ last' = r
          /\ IF rejected(r) THEN PF2_catch /\ calls' = calls
             ELSE IF ~ok(r)
             THEN RespondOnly(502,
                    [message |-> Msg(<<"Failed to fetch index.json from sec.gov">>),
                     status |-> r.status, body |-> r.body])
             ELSE IF r.body.kind = "text"
             THEN RespondOnly(500,
                    [message |-> Msg(<<"Could not parse index.json from sec.gov">>),
                     error |-> "e.toString()"])
             ELSE IF htmlFile = 0
             THEN RespondOnly(404,
                    [message |-> Msg(<<"Could not identify main HTML file for this filing in index.json.">>),
                     basePath |-> indexUrl, indexSample |-> r.body])
             ELSE Fetch(EdgarUrl(indexUrl.path[1], indexUrl.path[2], items[htmlFile].name),
                        "none", Undefined, "doc")

PF2_MAX_CHARS == 150000

PF2_Doc ==
  /\ h = "parse-filing#2" /\ pc = "doc"
  /\ UNCHANGED <<h, query, env>>
  /\ \E r \in DocReplies :
       /\ last' = r
       /\ IF rejected(r) THEN PF2_catch /\ calls' = calls /\ loc' = loc
          ELSE IF ~ok(r)
          THEN /\ RespondOnly(502,
                    [message |-> Msg(<<"Failed to fetch filing HTML from sec.gov">>),
                     status |-> r.status, bodyPreview |-> slice0(r.body, 500)])
               /\ loc' = loc
          ELSE /\ loc' = [loc EXCEPT !.url = calls[Len(calls)].url,
                                     !.html = slice0(r.body, PF2_MAX_CHARS)]
               /\ Post(ChatCompletions, "bearer", env.OPENAI_API_KEY,
                       slice0(r.body, PF2_MAX_CHARS), "ai")

\* The text handed to JSON.parse (lines 408-417).
PF2_jsonText(assistantMessage) ==
  LET jsonText == trim(assistantMessage)
      firstBrace == indexOf(jsonText, <<"{">>)
      lastBrace == lastIndexOf(jsonText, <<"}">>)
  IN IF startsWith(jsonText, Fence) /\ firstBrace # -1 /\ lastBrace # -1
     THEN SubSeq(jsonText, firstBrace + 1, lastBrace + 1)
     ELSE jsonText

PF2_Ai ==
  /\ h = "parse-filing#2" /\ pc = "ai"
  /\ UNCHANGED <<h, query, env, loc, calls>>
  /\ \E r \in AiReplies :
       /\ last' = r
       /\ IF rejected(r) THEN PF2_catch
          ELSE IF ~ok(r)
          THEN Respond(r.status,
                 [message |-> Msg(<<"OpenAI API returned a non-OK status">>),
                  status |-> r.status, body |-> r.body])
          ELSE IF r.body.kind = "text"
          THEN Respond(500,
                 [message |-> Msg(<<"Could not parse JSON from OpenAI API response">>),
                  raw |-> r.body])
          ELSE IF ~Truthy(r.body.content)
          THEN Respond(500,
                 [message |-> Msg(<<"No message content returned from OpenAI.">>),
                  raw |-> r.body])
          ELSE IF ~JSONparse(PF2_jsonText(r.body.content)).ok
          THEN Respond(500,
                 [message |-> Msg(<<"Assistant did not return valid JSON in message.content. Check the prompt.">>),
                  assistantContent |-> r.body.content])
          ELSE Respond(200,
                 [source |-> "sec.gov + openai",
                  cusip |-> query.cusip,
                  accessionNo |-> query.accessionNo,
                  cik |-> query.cik,
                  htmlUrl |-> loc.url,
                  note |-> JSONparse(PF2_jsonText(r.body.content)).value])

\* The third handler of the file (lines 456-693).

PF3_catch ==
  Respond(500, [message |-> Msg(<<"Internal server error in /api/parse-filing">>),
                error |-> "err.toString()"])

PF3_Start ==
  /\ h = "parse-filing#3" /\ pc = "start"
  /\ UNCHANGED <<h, query, env, last, loc>>
  /\ IF ~Truthy(query.cusip) \/ ~Truthy(query.accessionNo) \/ ~Truthy(query.cik)
     THEN RespondOnly(400, [message |-> Msg(<<"Missing query parameters. Required: cusip, accessionNo, cik. Example: /api/parse-filing?cusip=48136H7D4&accessionNo=0001213900-25-104551&cik=19617">>)])
     ELSE IF ~Truthy(env.OPENAI_API_KEY)
     THEN RespondOnly(500, [message |-> Msg(<<"OPENAI_API_KEY", " environment variable is not set in Vercel.">>)])
     ELSE Fetch(FilingHtmlUrl(query.accessionNo, query.cik), "none", Undefined, "filing")

PF3_modelLimit == 6000

PF3_Filing ==
  /\ h = "parse-filing#3" /\ pc = "filing"
  /\ UNCHANGED <<h, query, env>>
  /\ \E r \in FilingHtmlReplies :
       /\ last' = r
       /\ IF rejected(r) THEN PF3_catch /\ calls' = calls /\ loc' = loc
          ELSE IF ~ok(r)
          THEN /\ RespondOnly(502,
                    [message |-> Msg(<<"Error calling /api/filing-html">>),
                     status |-> r.status, body |-> r.body])
               /\ loc' = loc
          ELSE IF r.body.kind = "text"
          THEN PF3_catch /\ calls' = calls /\ loc' = loc
          ELSE IF r.body.htmlPreview = NullRec \/ length(r.body.htmlPreview) = 0
          THEN /\ RespondOnly(500,
                    [message |-> Msg(<<"No htmlPreview returned from /api/filing-html. Cannot parse terms.">>),
                     filingData |-> r.body])
               /\ loc' = loc
          ELSE /\ loc' = [loc EXCEPT !.html = r.body.htmlPreview]
               /\ Post(ChatCompletions, "bearer", env.OPENAI_API_KEY,
                       slice0(r.body.htmlPreview, PF3_modelLimit), "ai")

RECURSIVE dropWhileIn(_, _)
dropWhileIn(s, chars) ==
  IF s # <<>> /\ Head(s) \in chars THEN dropWhileIn(Tail(s), chars) ELSE s

\* extractJsonFromText (lines 639-660)
extractJsonFromText(text) ==
  LET AlphaNumeric == DecimalDigits \cup {LowerChars[i] : i \in DOMAIN LowerChars}
                                    \cup {UpperChars[i] : i \in DOMAIN UpperChars}
      trimmed == trim(text)
      firstNewline == indexOf(trimmed, <<"\n">>)
      \* past the first line, or trimmed.replace(/^```[a-zA-Z0-9]*\s*/g, "")
      opened == IF firstNewline # -1
                THEN SubSeq(trimmed, firstNewline + 2, Len(trimmed))
                ELSE trimStart(dropWhileIn(SubSeq(trimmed, 4, Len(trimmed)), AlphaNumeric))
      lastFence == lastIndexOf(opened, Fence)
      closed == IF lastFence # -1 THEN SubSeq(opened, 1, lastFence) ELSE opened
  IN IF startsWith(trimmed, Fence) THEN trim(closed) ELSE trim(trimmed)

PF3_Ai ==
  /\ h = "parse-filing#3" /\ pc = "ai"
  /\ UNCHANGED <<h, query, env, loc, calls>>
  /\ \E r \in AiReplies :
       /\ last' = r
       /\ IF rejected(r) THEN PF3_catch
          ELSE IF ~ok(r)
          THEN Respond(r.status,
                 [message |-> Msg(<<"OpenAI API returned a non-OK status">>),
                  status |-> r.status, body |-> r.body])
          ELSE IF r.body.kind = "text"
          THEN Respond(500,
                 [message |-> Msg(<<"Could not parse JSON from OpenAI API response">>),
                  raw |-> r.body])
          ELSE IF ~Truthy(r.body.content)
          THEN Respond(500,
                 [message |-> Msg(<<"OpenAI response did not contain message.content. Check model / prompt.">>),
                  openaiRaw |-> r.body])
          ELSE IF ~JSONparse(extractJsonFromText(r.body.content)).ok
          THEN Respond(500,
                 [message |-> Msg(<<"Assistant did not return valid JSON even after cleaning. See assistantContent and cleaned.">>),
                  assistantContent |-> r.body.content,
                  cleaned |-> extractJsonFromText(r.body.content)])
          ELSE Respond(200,
                 [source |-> "sec.gov+openai",
                  cusip |-> query.cusip,
                  accessionNo |-> query.accessionNo,
                  cik |-> query.cik,
                  htmlPreviewLength |-> length(loc.html),
                  terms |-> JSONparse(extractJsonFromText(r.body.content)).value])

Next ==
  \/ FilingHtml_Start
  \/ FilingHtml_Index
  \/ FilingHtml_Doc
  \/ AC1_Start
  \/ AC1_Search
  \/ AC1_Index
  \/ AC1_Doc
  \/ AC2_Start
  \/ AC2_Search
  \/ AC2_Index
  \/ P0b_Start
  \/ P0b_Search
  \/ P1_Start
  \/ P2_Start
  \/ P2_Search
  \/ P3_Start
  \/ P3_Search
  \/ P3_Doc
  \/ P4a_Start
  \/ P4a_Search
  \/ P0a_Start
  \/ P0a_Search
  \/ P0a_Scan
  \/ P5_Start
  \/ P5_Search
  \/ P5_Scan
  \/ P4b_Start
  \/ P4b_Subs
  \/ P4b_Scan
  \/ PF1_Start
  \/ PF1_Filing
  \/ PF1_Ai
  \/ PF2_Start
  \/ PF2_Index
  \/ PF2_Doc
  \/ PF2_Ai
  \/ PF3_Start
  \/ PF3_Filing
  \/ PF3_Ai

Spec == Init /\ [][Next]_vars

\* Every call the handler awaits is eventually settled, resolved or
\* rejected, and the event loop then runs the handler's continuation: a
\* step of the invocation that is possible is eventually taken.
\* Whether and after how many calls a handler responds does not depend on
\* how a parameter is spelt, only on whether it is there: every parameter
\* is absent or has one well-formed value.
InitFair ==
  /\ Init
  /\ query.cusip \in {Undefined, Cusip1}
  /\ query.accessionNo \in {Undefined, Acc1}
  /\ query.cik \in {Undefined, <<"7">>, <<"0", "7">>}

SpecFair == InitFair /\ [][Next]_vars /\ WF_vars(Next)

\* ------------------------------------------------ two invocations at once

\* The variants that keep module-level objects: issuerMap and the SDK
\* client of part_000, the SDK client of part_002, issuerMap of part_004.
ModuleHandlers == { "part_000#1", "part_002", "part_004#2" }

\* The event loop resumes the other invocation: the running one is at an
\* await (or has not started, or has returned) and stays suspended.
Resume ==
  /\ other.h # "none" /\ other.pc # "done"
  /\ h' = other.h /\ pc' = other.pc /\ query' = other.query /\ env' = other.env
  /\ calls' = other.calls /\ last' = other.last /\ loc' = other.loc
  /\ sent' = other.sent
  /\ other' = [ h |-> h, pc |-> pc, query |-> query, env |-> env, calls |-> calls,
                last |-> last, loc |-> loc, sent |-> sent ]
  /\ module' = module

\* Two requests in one process (one environment, SEC_API_KEY set), each
\* with a CUSIP of a known or of an unknown prefix and each served by a
\* variant that keeps module-level objects: the second by part_002 or,
\* next to a request of part_000, by part_000 as well.
InitConcurrent ==
  /\ h \in ModuleHandlers
  /\ pc = "start"
  /\ query \in {q \in QueriesOf(h) : q.cusip \in {Cusip1, <<"4","8","1","3">>}}
  /\ env \in {e \in EnvsOf(h) : Truthy(e.SEC_API_KEY)}
  /\ calls = <<>>
  /\ last = NoReply
  /\ loc = NoLoc
  /\ sent = <<>>
  /\ other \in {Invocation(v, [query EXCEPT !.cusip = c], env) :
                  v \in {"part_002"} \cup ({h} \cap {"part_000#1"}),
                  c \in {query.cusip, Cusip1}}
  /\ module = [issuerMap |-> issuerMap]

NextConcurrent ==
  \/ P0a_Start
  \/ P0a_Search
  \/ P0a_Scan
  \/ P2_Start
  \/ P2_Search
  \/ P4b_Start
  \/ P4b_Subs
  \/ P4b_Scan
  \/ Resume

SpecConcurrent == InitConcurrent /\ [][NextConcurrent]_vars

\* ------------------------------------------------------------------ claims

\* C1: in every variant of the locate-filing handler, a request whose cusip
\* query parameter is missing or empty is answered with HTTP 400, and no
\* outbound request is issued at any point of that request.
C1_MissingCusipIs400 ==
  (h \in LocateHandlers /\ query.cusip \in {Undefined, <<>>}) =>
    /\ calls = <<>>
    /\ pc \in {"start", "done"}
    /\ pc = "done" => (Len(sent) = 1 /\ sent[1].status = 400)

\* An SEC-submissions variant request with an empty cusip has been answered.
C1_Witness ==
  /\ h = "part_004#2" /\ query.cusip = <<>>
  /\ pc = "done" /\ sent[1].status = 400 /\ calls = <<>>

\* The call the handler issued last, and whether the reply held in `last`
\* answers it with an HTTP response (the call did not reject).
lastCall == calls[Len(calls)]
\* The address the last call went to, without its path ("" before any
\* call and for a call made with no address at all).
lastPrefix ==
  IF calls = <<>> \/ lastCall.url = NullRec THEN "" ELSE lastCall.url.prefix
replied == Len(calls) >= 1 /\ last.status > 0

\* C2: in every locate-filing handler, when the upstream search succeeds
\* and returns zero matching filings, the response has HTTP status 404
\* (never 500 or 200) and its body carries filingsCount: 0.
C2_ZeroFilingsIs404WithCount ==
  ( /\ h \in LocateHandlers /\ pc = "done" /\ Len(calls) = 1
    /\ lastCall.url \in {FullTextSearch, SdkFullTextSearch, SdkSearch}
    /\ ok(last) /\ last.body.kind = "object"
    /\ last.body.isArray /\ last.body.filings = <<>> )
  => /\ sent[1].status = 404
     /\ "filingsCount" \in DOMAIN sent[1].body
     /\ sent[1].body.filingsCount = 0

\* The full-text-search variant of part_004 has answered a search that
\* matched nothing with a 404 whose body has no filingsCount.
C2_Witness ==
  /\ h = "part_004#1" /\ pc = "done" /\ Len(calls) = 1
  /\ last.status = 200 /\ last.body.isArray /\ last.body.filings = <<>>
  /\ sent[1].status = 404
  /\ "filingsCount" \notin DOMAIN sent[1].body

\* C3: for any non-success HTTP response from an upstream dependency
\* (sec-api.io search, SEC submissions API, OpenAI), the handler's response
\* status equals the upstream status code and the response body carries the
\* upstream status and the upstream body text unchanged; the handler never
\* answers 200 and never substitutes a different status code.
C3_UpstreamStatusVerbatim ==
  ( /\ pc = "done" /\ replied /\ ~ok(last)
    /\ lastPrefix \in { "https://api.sec-api.io/full-text-search",
                       "https://data.sec.gov/submissions",
                       "https://api.openai.com/v1/chat/completions" } )
  => /\ sent[1].status = last.status
     /\ {"status", "body"} \subseteq DOMAIN sent[1].body
     /\ sent[1].body.status = last.status
     /\ sent[1].body.body = last.body

\* part_003 has answered a 503 of the search with a 502.
C3_Witness ==
  /\ h = "part_003" /\ pc = "done" /\ Len(calls) = 1
  /\ last.status = 503 /\ sent[1].status = 502

\* The form-code pattern of each selector: 424b2 or fwp in filing-html.js,
\* 424b in fetchEdgarHtml (case-insensitive).
C4_isForm(v, name) ==
  IF v = "filing-html"
  THEN \/ includes(toLowerCase(name), <<"4","2","4","b","2">>)
       \/ includes(toLowerCase(name), <<"f","w","p">>)
  ELSE includes(toLowerCase(name), <<"4","2","4","b">>)

\* The HTML test of each selector: .htm or .html in filing-html.js, .htm
\* in fetchEdgarHtml (case-insensitive).
C4_isHtml(v, name) ==
  IF v = "filing-html" THEN isHtmlName(name) ELSE isHtmName(name)

\* The entry the priority order of C4 picks from a non-empty listing: the
\* first HTML entry with a form code, else the first HTML entry, else the
\* first entry.
C4_expected(v, items) ==
  LET html == {i \in DOMAIN items : C4_isHtml(v, nameOrEmpty(items[i]))}
      form == {i \in html : C4_isForm(v, nameOrEmpty(items[i]))}
  IN IF form # {} THEN find(form) ELSE IF html # {} THEN find(html) ELSE 1

\* C4: given any non-empty directory listing, the primary-document selector
\* picks (a) the first HTML entry whose name matches the form-code pattern,
\* else (b) the first HTML entry, else (c) the first listed entry; a listing
\* with no HTML entry still yields its first file, not a not-found result.
\* Stated of both selectors (filing-html.js and fetchEdgarHtml), each with
\* its own name tests: after a listing arrived, the document request is
\* issued for the entry the priority order picks.
C4_SelectorPriority ==
  ( /\ h \in {"filing-html", "analyze-cusip#1"}
    /\ "item" \in DOMAIN last.body /\ ok(last)
    /\ last.body.kind = "object" /\ last.body.isArray /\ last.body.item # <<>> )
  => LET items == last.body.item
         want == C4_expected(h, items)
     IN /\ pc = "doc"
        /\ lastCall.url.path[3] = items[want].name

\* filing-html has answered 404 to a listing whose only entry is a.txt.
C4_Witness ==
  /\ h = "filing-html" /\ pc = "done"
  /\ "item" \in DOMAIN last.body /\ last.status = 200
  /\ last.body.item = <<[name |-> <<"a",".","t","x","t">>]>>
  /\ sent[1].status = 404 /\ Len(calls) = 1

\* C5: in every extract-terms handler, for every model output that is a
\* valid JSON value wrapped in triple-backtick fences, with no language tag
\* or with any language tag, on one line or on several, the fences are
\* removed before parsing, parsing succeeds, and the handler answers 200
\* with the parsed value.
C5_FencedJsonParses ==
  \A tag \in { <<>>, <<"j","s","o","n">>, <<"j","s">> } :
    \A s1 \in { <<>>, <<"\n">> }, j \in JsonTexts, s2 \in { <<>>, <<"\n">> } :
      ( /\ h \in ExtractHandlers /\ pc = "done" /\ replied
        /\ lastCall.url = ChatCompletions
        /\ ok(last) /\ last.body.kind = "object"
        /\ last.body.content = Fence \o tag \o s1 \o j \o s2 \o Fence )
      => /\ sent[1].status = 200
         /\ IF h = "parse-filing#3"
            THEN sent[1].body.terms = JSONparse(j).value
            ELSE sent[1].body.note = JSONparse(j).value

\* The first parse-filing handler has answered 500 to an object fenced
\* with the language tag js on lines of its own.
C5_Witness ==
  /\ h = "parse-filing#1" /\ pc = "done" /\ replied
  /\ lastCall.url = ChatCompletions /\ last.status = 200
  /\ last.body.kind = "object"
  /\ last.body.content = Fence \o <<"j","s","\n","{","}","\n">> \o Fence
  /\ sent[1].status = 500

\* The environment variable a handler hands to its upstream as the key
\* (part_001, part_005 and the SEC-submissions variant of part_004 hand
\* none).
C6_keyOf(v) ==
  IF v \in ExtractHandlers THEN "OPENAI_API_KEY"
  ELSE IF v \in LocateHandlers \ {"part_001", "part_004#2", "part_005"}
  THEN "SEC_API_KEY"
  ELSE "none"

\* C6: in every handler that uses an API key, a request made while that
\* environment variable is absent is answered with HTTP 500 and a message
\* naming the missing variable, and no outbound call is issued with an
\* empty or default key.  Stated of requests that pass the validation of
\* their parameters (and, in part_000, the issuer lookup).
C6_MissingKeyIs500 ==
  ( /\ C6_keyOf(h) # "none"
    /\ env[C6_keyOf(h)] = Undefined
    /\ (h \in LocateHandlers => query.cusip = Cusip1)
    /\ (h \in ExtractHandlers =>
          Truthy(query.cusip) /\ Truthy(query.accessionNo) /\ Truthy(query.cik)) )
  => /\ calls = <<>>
     /\ pc = "done" =>
          /\ sent[1].status = 500
          /\ LET b == sent[1].body
                 m == IF "message" \in DOMAIN b THEN b.message ELSE b.error
             IN m.text[1] = C6_keyOf(h)

\* part_002 has called the search through the SDK although SEC_API_KEY is
\* absent.
C6_Witness ==
  /\ h = "part_002" /\ env.SEC_API_KEY = Undefined
  /\ Len(calls) = 1 /\ calls[1].url = SdkFullTextSearch
  /\ calls[1].key = Undefined

\* The first six characters of a CUSIP, upper-cased.
C7_firstSix(cusip) == toUpperCase(substring0(cusip, 6))

\* What must hold of a request of an issuerMap variant whose prefix is
\* not a key of the map: no outbound call, and 404 with a message that
\* interpolates the prefix.
C7_unknown(prefix) ==
  /\ calls = <<>>
  /\ pc = "done" =>
       /\ sent[1].status = 404
       /\ "message" \in DOMAIN sent[1].body
       /\ sent[1].body.message.subst = <<prefix>>

\* C7 as stated: in every variant that uses the static prefix-to-issuer
\* map, a request whose CUSIP's first six characters (upper-cased) are not
\* a key of the map is answered with HTTP 404 and a message that contains
\* that six-character prefix, and no outbound call is issued.
C7_AsStated ==
  ( /\ h \in MapHandlers /\ Truthy(query.cusip)
    /\ C7_firstSix(query.cusip) \notin DOMAIN issuerMap )
  => C7_unknown(C7_firstSix(query.cusip))

\* C7, amended: the prefix is taken from the CUSIP as it was sent in
\* part_000 and part_005, and from the CUSIP trimmed of surrounding white
\* space in the SEC-submissions variant of part_004; a request whose prefix
\* so taken (upper-cased) is not a key of the map is answered with 404 and
\* a message containing that prefix, and no outbound call is issued.
C7_UnknownPrefixIs404 ==
  LET prefix == IF h = "part_004#2" THEN C7_firstSix(trim(query.cusip))
                                    ELSE C7_firstSix(query.cusip)
  IN ( /\ h \in MapHandlers /\ Truthy(query.cusip)
       /\ prefix \notin DOMAIN issuerMap )
     => C7_unknown(prefix)

\* part_005 has answered a CUSIP of an unmapped issuer.
C7_Witness ==
  /\ h = "part_005" /\ pc = "done" /\ calls = <<>>
  /\ query.cusip = <<"9","9","9","9","9","X","0","0","0">>
  /\ sent[1].status = 404
  /\ sent[1].body.message.subst = << <<"9","9","9","9","9","X">> >>

\* C8: in every handler, every failure (rejected outbound call, exception
\* while reading the request or an upstream body, bad input, upstream
\* error) ends in a JSON response whose body has a message field; no
\* exception escapes the handler and no error response lacks message.
C8_ErrorsCarryMessage ==
  (pc = "done" /\ sent[1].status >= 400) => "message" \in DOMAIN sent[1].body

\* part_002 has answered a request without cusip with a body that has an
\* error field and no message field.
C8_Witness ==
  /\ h = "part_002" /\ pc = "done" /\ query.cusip = Undefined
  /\ sent[1].status = 400
  /\ DOMAIN sent[1].body = {"error"}

\* C9: in the fetch-document and extract-terms handlers, a non-success
\* HTTP response to the directory-listing request or to the document
\* request (including the internal call to /api/filing-html) is answered
\* with that same status code and with the upstream body attached, and no
\* further outbound request is made.
C9_FetchFailureSurfaced ==
  ( /\ h \in {"filing-html"} \cup ExtractHandlers
    /\ replied /\ ~ok(last)
    /\ lastPrefix \in { "https://www.sec.gov/Archives/edgar/data",
                       "${baseUrl}/api/filing-html" } )
  => /\ pc = "done"
     /\ sent[1].status = last.status
     /\ LET b == sent[1].body
        IN \/ "body" \in DOMAIN b /\ b.body = last.body
           \/ "filingJson" \in DOMAIN b /\ b.filingJson = last.body

\* The second parse-filing handler has answered a 404 of the index.json
\* request with a 502.
C9_Witness ==
  /\ h = "parse-filing#2" /\ pc = "done" /\ Len(calls) = 1
  /\ last.status = 404 /\ sent[1].status = 502

\* The issuer identifier and the accession number a handler builds its
\* EDGAR paths from: the request's, the first search result's, or the
\* issuerMap entry and the candidate filing's.
C10_cik ==
  IF h \in {"filing-html", "parse-filing#2"} THEN query.cik
  ELSE IF h = "part_004#2" THEN issuerMap[P4b_prefix(query.cusip)]
  ELSE loc.filings[1].cik

C10_acc ==
  IF h \in {"filing-html", "parse-filing#2"} THEN query.accessionNo
  ELSE loc.filings[IF h = "part_004#2" THEN loc.i ELSE 1].accessionNo

\* C10: for every issuer identifier and accession number accepted by a
\* document-fetching handler, the directory and document URLs are exactly
\* https://www.sec.gov/Archives/edgar/data/{cik}/{acc}/..., where {cik} is
\* the issuer identifier with all leading zeros removed and {acc} is the
\* accession number with every dash removed, and the document URL ends
\* with the selected listing entry's name.
C10_EdgarUrlShape ==
  lastPrefix = "https://www.sec.gov/Archives/edgar/data"
  => /\ Len(lastCall.url.path) = 3
     /\ lastCall.url.path[1] = stripLeadingZeros(C10_cik)
     /\ lastCall.url.path[2] = removeDashes(C10_acc)
     /\ pc = "index" => lastCall.url.path[3] = IndexJson
     /\ (pc = "doc" /\ h # "part_004#2") =>
          \E k \in 1..Len(last.body.item) :
            last.body.item[k].name = lastCall.url.path[3]

\* filing-html has requested the directory .../data/7/001257/index.json
\* for the issuer identifier 7x.
C10_Witness ==
  /\ h = "filing-html" /\ pc = "index"
  /\ query.cik = <<"7","x">> /\ query.accessionNo = Acc1
  /\ calls[1].url.path = << <<"7">>, <<"0","0","1","2","5","7">>, IndexJson >>

\* The note of a 200 response of an extract-terms handler (the third
\* handler names it `terms`).
C11_note(v, body) == IF v = "parse-filing#3" THEN body.terms ELSE body.note

\* C11: no handler ever returns a note whose payoff_today.amount_per_1000
\* or payoff_today.pct_of_par is a number: in every 200 response of the stub
\* both fields are null, and no 200 response of an extract-terms handler
\* carries a note with numbers in these fields.
C11_NoNumericPayoff ==
  \A i \in DOMAIN sent :
    sent[i].status = 200 =>
      /\ h = "part_001" =>
           /\ sent[i].body.payoff_today.amount_per_1000 = NullRec
           /\ sent[i].body.payoff_today.pct_of_par = NullRec
      /\ h \in ExtractHandlers =>
           C11_note(h, sent[i].body) # <<"{", payoffNumber, "}">>

\* An extract-terms handler has answered 200 with a note whose payoff
\* fields are null: the model reply that conforms.
C11_Witness ==
  /\ h \in ExtractHandlers /\ pc = "done" /\ Len(sent) = 1
  /\ sent[1].status = 200
  /\ C11_note(h, sent[1].body) = <<"{", payoffNull, "}">>

\* The extract-terms handler has received an OK reply of the model whose
\* message content is a non-empty string, and has answered.
C12_contentHandled ==
  /\ h \in ExtractHandlers /\ pc = "done"
  /\ lastPrefix = ChatCompletions.prefix
  /\ ok(last) /\ last.body.kind = "object" /\ Truthy(last.body.content)

\* Fence-stripping as specified: of a text that starts with a fence, the
\* leading fence with its language tag (letters) and the trailing fence are
\* removed, with the white space around what is left.
C12_stripFences(content) ==
  LET letters == {LowerChars[i] : i \in DOMAIN LowerChars}
                 \cup {UpperChars[i] : i \in DOMAIN UpperChars}
      t == trim(content)
      opened == dropWhileIn(SubSeq(t, 4, Len(t)), letters)
      closed == IF endsWith(opened, Fence)
                THEN SubSeq(opened, 1, Len(opened) - 3) ELSE opened
  IN IF startsWith(t, Fence) THEN trim(closed) ELSE t

\* C12: in every extract-terms handler, a message content that is not
\* valid JSON after fence-stripping is answered with status 500 and the raw
\* model text in the body, and the model is not requested a second time.
C12_ParseFailureIs500WithRawText ==
  (C12_contentHandled /\ ~JSONparse(C12_stripFences(last.body.content)).ok) =>
    /\ Len(sent) = 1
    /\ sent[1].status = 500
    /\ "assistantContent" \in DOMAIN sent[1].body
    /\ sent[1].body.assistantContent = last.body.content
    /\ Cardinality({i \in DOMAIN calls : calls[i].url = ChatCompletions}) = 1

\* A handler has answered 500, with the raw text, to a fenced content that
\* is no JSON once the fences are off.
C12_Witness ==
  /\ C12_contentHandled
  /\ last.body.content = Fence \o <<"\n", "x", "{", "}", "\n">> \o Fence
  /\ sent[1].status = 500
  /\ sent[1].body.assistantContent = last.body.content

\* C13: every 200 response of every extract-terms handler has a body with
\* the fields source, cusip, accessionNo, cik, htmlUrl and note, where
\* cusip, accessionNo and cik are the request's query parameters and note
\* is the model's output, parsed.
C13_SuccessBodyShape ==
  \A i \in DOMAIN sent :
    (h \in ExtractHandlers /\ sent[i].status = 200) =>
      /\ {"source", "cusip", "accessionNo", "cik", "htmlUrl", "note"}
           \subseteq DOMAIN sent[i].body
      /\ sent[i].body.cusip = query.cusip
      /\ sent[i].body.accessionNo = query.accessionNo
      /\ sent[i].body.cik = query.cik
      /\ sent[i].body.note = JSONparse(C12_stripFences(last.body.content)).value

\* The second handler has answered 200 with the six fields, the note being
\* the fenced JSON of the model.
C13_Witness ==
  /\ h = "parse-filing#2" /\ pc = "done" /\ Len(sent) = 1
  /\ sent[1].status = 200
  /\ DOMAIN sent[1].body = {"source", "cusip", "accessionNo", "cik", "htmlUrl", "note"}
  /\ sent[1].body.cusip = Cusip1 /\ sent[1].body.accessionNo = Acc1
  /\ sent[1].body.htmlUrl = calls[2].url
  /\ last.body.content = Fence \o <<"j","s","o","n","\n","{","}","\n">> \o Fence
  /\ sent[1].body.note = <<"{", "}">>

\* A required query parameter of the handler is missing (absent or empty).
C14_missing ==
  LET none == {Undefined, <<>>}
  IN \/ /\ h = "filing-html"
        /\ (query.accessionNo \in none \/ query.cik \in none)
     \/ /\ h \in ExtractHandlers
        /\ (query.cusip \in none \/ query.accessionNo \in none \/ query.cik \in none)

\* C14: in the fetch-document handler a request missing accessionNo or
\* cik, and in every extract-terms handler a request missing cusip,
\* accessionNo or cik, is answered with HTTP 400 and no outbound request is
\* issued.
C14_MissingParamsIs400 ==
  C14_missing =>
    /\ calls = <<>>
    /\ pc \in {"start", "done"}
    /\ pc = "done" => (Len(sent) = 1 /\ sent[1].status = 400)

\* An extract-terms handler has answered 400 to a request whose cik is
\* empty while cusip and accessionNo are given.
C14_Witness ==
  /\ h \in ExtractHandlers /\ pc = "done"
  /\ query.cusip = Cusip1 /\ query.accessionNo = Acc1 /\ query.cik = <<>>
  /\ calls = <<>> /\ Len(sent) = 1 /\ sent[1].status = 400

\* The locate-filing handler has answered a search reply that was OK and
\* whose body is JSON with no filing in it: the value null, an object whose
\* `filings` is absent or no array, or an object with an empty array.
C15_emptyResult ==
  /\ h \in LocateHandlers \ {"part_001", "part_004#2"}
  /\ pc = "done" /\ Len(calls) = 1
  /\ ok(last) /\ last.body.kind \in {"null", "object"}
  /\ (~last.body.isArray \/ last.body.filings = <<>>)

\* C15: in every locate-filing handler, an OK search reply whose body is
\* valid JSON of any shape without filings is answered with the structured
\* not-found result, status 404, never with 500.
C15_AnyJsonShapeIs404 ==
  C15_emptyResult => (Len(sent) = 1 /\ sent[1].status = 404)

\* A handler has answered 404 to an OK search reply whose body is an object
\* without a `filings` array.
C15_Witness ==
  /\ C15_emptyResult
  /\ last.body.kind = "object" /\ ~last.body.isArray
  /\ Len(sent) = 1 /\ sent[1].status = 404

\* The locate-filing handler has answered a search reply that was OK and
\* whose body is text that is no JSON.
C16_malformed ==
  /\ h \in LocateHandlers \ {"part_001", "part_004#2"}
  /\ pc = "done" /\ Len(calls) = 1
  /\ ok(last) /\ last.body.kind = "text"

\* C16: in every locate-filing handler, an OK search reply whose body is
\* not valid JSON is answered with status 500 as a parse error that carries
\* the raw upstream text, and the search is not requested a second time.
C16_MalformedJsonIsParseError ==
  C16_malformed =>
    /\ Len(sent) = 1
    /\ sent[1].status = 500
    /\ "raw" \in DOMAIN sent[1].body
    /\ sent[1].body.raw = last.body

\* A handler has answered 500 with the raw text to an OK search reply that
\* is no JSON.
C16_Witness ==
  /\ C16_malformed
  /\ Len(sent) = 1 /\ sent[1].status = 500
  /\ "raw" \in DOMAIN sent[1].body /\ sent[1].body.raw = last.body

\* C17: in every handler, a failure at any stage of the pipeline, a
\* non-success status or a rejected call, ends the request with an error
\* response: a handler whose last outbound call failed has not answered 200.
C17_NoSuccessAfterFailure ==
  (pc = "done" /\ Len(calls) >= 1 /\ ~ok(last)) =>
    \A i \in DOMAIN sent : sent[i].status # 200

\* The fetch-document handler has answered the failure of its document
\* request, the second stage, with an error response.
C17_Witness ==
  /\ h = "filing-html" /\ pc = "done" /\ Len(calls) = 2
  /\ last.status = 503
  /\ Len(sent) = 1 /\ sent[1].status = 503

\* C18: within one request the outbound calls are issued one at a time in
\* pipeline order: a step that issues a call issues exactly one and then
\* waits for it; a call after the first is issued in the step that received
\* the reply of the call before it; and a document request or a model
\* request is issued only when that reply was a success (status 200..299).
C18_SequentialCalls ==
  [][ calls' # calls =>
        /\ Len(calls') = Len(calls) + 1
        /\ SubSeq(calls', 1, Len(calls)) = calls
        /\ pc' \notin {"start", "done"}
        /\ (calls = <<>>) = (pc = "start")
        /\ calls # <<>> => last'.status # -1
        /\ pc' \in {"doc", "ai"} => (last'.status >= 200 /\ last'.status <= 299)
    ]_vars

\* An extract-terms handler waits for the model, its third call, after the
\* directory listing and the document were fetched with success.
C18_Witness ==
  /\ h = "parse-filing#2" /\ pc = "ai" /\ Len(calls) = 3
  /\ calls[3].url = ChatCompletions /\ calls[3].text # NullRec
  /\ last.status = 200 /\ sent = <<>>

\* C19: no upstream failure is retried or worked around: a step that
\* issues a call after the first has received a success (no rejection, no
\* non-success status) for the call before it, and the URL it requests was
\* not requested before in the request.
C19_NoRetryNoFallback ==
  [][ calls' # calls =>
        /\ calls # <<>> => ok(last')
        /\ \A i \in DOMAIN calls : calls[i].url # calls'[Len(calls')].url
    ]_vars

\* The fetch-document handler has answered the failure of its index.json
\* request with that failure, having issued no other call.
C19_Witness ==
  /\ h = "filing-html" /\ pc = "done" /\ Len(calls) = 1
  /\ last.status = 503 /\ Len(sent) = 1 /\ sent[1].status = 503

\* The two invocations are the same request in the same environment and
\* have issued the same calls and hold the same replies.
C20_sameInputs ==
  /\ other.h = h /\ other.query = query /\ other.env = env
  /\ other.calls = calls /\ other.last = last /\ other.loc = loc
  /\ pc = "done" /\ other.pc = "done"

\* C20: handler invocations share no mutable state.  In every step of two
\* requests interleaved at their await points the module-level objects
\* (the prefix-to-issuer map) stay as they are; the suspended invocation is
\* left as it is, or it is resumed and the running one is suspended as it
\* is; and the response depends on the request, the environment and the
\* upstream replies only: two invocations equal in these have sent the same
\* response, however they were interleaved.
C20_NoSharedState ==
  [][ /\ module' = module
      /\ \/ other' = other
         \/ /\ other' = [ h |-> h, pc |-> pc, query |-> query, env |-> env,
                          calls |-> calls, last |-> last, loc |-> loc,
                          sent |-> sent ]
            /\ <<h', pc', query', env', calls', last', loc', sent'>>
                 = <<other.h, other.pc, other.query, other.env, other.calls,
                     other.last, other.loc, other.sent>>
      /\ C20_sameInputs' => sent' = other'.sent
    ]_vars

\* A request of part_000 has been answered 200 while a second request of
\* part_000 is suspended at its document request, the map being as loaded.
C20_Witness ==
  /\ h = "part_000#1" /\ pc = "done" /\ Len(sent) = 1 /\ sent[1].status = 200
  /\ other.h = "part_000#1" /\ other.pc = "scan" /\ other.sent = <<>>
  /\ module.issuerMap = issuerMap

\* The preview length of the handler variants that return document
\* content, and the model limit of the extract-terms handlers.
C21_previewLength(v) ==
  IF v = "filing-html" THEN FilingHtml_previewLength
  ELSE IF v = "analyze-cusip#1" THEN fetchEdgarHtml_previewLength
  ELSE IF v = "part_003" THEN P3_previewLength
  ELSE IF v = "part_000#1" THEN P0a_previewLength
  ELSE IF v = "part_005" THEN P5_snippetLength
  ELSE P4b_previewLength

C21_modelLimit(v) ==
  IF v = "parse-filing#1" THEN PF1_modelLimit
  ELSE IF v = "parse-filing#2" THEN PF2_MAX_CHARS
  ELSE PF3_modelLimit

\* The document content of a 200 response (NullRec: none).
C21_preview(v, body) ==
  IF v = "part_005" THEN body.htmlSnippet
  ELSE IF "htmlPreview" \in DOMAIN body THEN body.htmlPreview
  ELSE NullRec

\* C21: in every handler that returns document content, the returned
\* preview is never longer than the handler's preview length, and the
\* document text forwarded to the model is never longer than the handler's
\* model limit, for documents of every length.
C21_PreviewBounded ==
  /\ \A i \in DOMAIN sent :
       ( /\ h \in {"filing-html", "analyze-cusip#1", "part_003", "part_000#1",
                   "part_005", "part_004#2"}
         /\ sent[i].status = 200
         /\ C21_preview(h, sent[i].body) # NullRec ) =>
         length(C21_preview(h, sent[i].body)) <= C21_previewLength(h)
  /\ \A i \in DOMAIN calls :
       (h \in ExtractHandlers /\ calls[i].url = ChatCompletions) =>
         length(calls[i].text) <= C21_modelLimit(h)

\* A handler has returned the preview of a document longer than its
\* preview length, cut to that length.
C21_Witness ==
  /\ h = "analyze-cusip#1" /\ pc = "done" /\ Len(sent) = 1 /\ sent[1].status = 200
  /\ Len(calls) = 3 /\ last.status = 200 /\ length(last.body) > 100000
  /\ sent[1].body.htmlPreview # NullRec
  /\ length(sent[1].body.htmlPreview) = fetchEdgarHtml_previewLength

\* C22: every handler invocation sends exactly one HTTP response: no
\* response has been sent while the handler runs or waits, and exactly one
\* when it has returned, on every path (early returns, swallowed failures
\* of an inner try, the top-level catch).
C22_ExactlyOneResponse ==
  /\ Len(sent) <= 1
  /\ (pc = "done") = (Len(sent) = 1)

\* The first analyze-cusip handler has returned after the inner try
\* swallowed a rejected index.json request, having sent one response.
C22_Witness ==
  /\ h = "analyze-cusip#1" /\ pc = "done" /\ Len(calls) = 2
  /\ last.status = 0
  /\ Len(sent) = 1 /\ sent[1].status = 200

\* The variants that scan an issuer's filings for the CUSIP.
C23_scanning == h \in {"part_000#1", "part_005", "part_004#2"}

C23_isCandidate(row) == row.form \in {"424B2", "FWP"}

\* The candidates of the upstream reply r, in the order listed.
C23_listed(r) ==
  IF h = "part_004#2" THEN SelectSeq(r.body.rows, C23_isCandidate)
  ELSE r.body.filings

\* The document URL of candidate c.
C23_urlOf(c) ==
  IF h = "part_004#2"
  THEN P4b_htmlUrl(module.issuerMap[toUpperCase(substring0(trim(query.cusip), 6))], c)
  ELSE c.linkToHtml

\* The fetched HTML of reply r contains the CUSIP: the CUSIP as sent in
\* part_000 and part_005, the trimmed CUSIP without regard to case in
\* part_004.
C23_contains(r) ==
  /\ r.status >= 200 /\ r.status <= 299
  /\ IF h = "part_004#2"
     THEN htmlIncludes(htmlToUpperCase(r.body), toUpperCase(trim(query.cusip)))
     ELSE htmlIncludes(r.body, query.cusip)

\* C23: in the scanning variants the candidates are examined in the order
\* the upstream listed them, one document request per candidate; the
\* filing returned is the first candidate whose fetched HTML contains the
\* CUSIP and no document is requested after it; and when the last
\* candidate does not match either the response is 404.
C23_ScanOrder ==
  [][ C23_scanning =>
        /\ (pc \in {"search", "subs"} /\ pc' = "scan") =>
             /\ loc'.filings = C23_listed(last') /\ loc'.i = 1
             /\ Len(calls') = 2
             /\ calls'[2].url = C23_urlOf(loc'.filings[1])
        /\ (pc = "scan" /\ last'.status # 0) =>
             /\ loc'.filings = loc.filings
             /\ IF C23_contains(last')
                THEN /\ calls' = calls /\ pc' = "done"
                     /\ sent'[1].status = 200
                     /\ sent'[1].body.filingMeta = loc.filings[loc.i]
                ELSE IF loc.i < Len(loc.filings)
                THEN /\ pc' = "scan" /\ sent' = sent
                     /\ loc'.i = loc.i + 1
                     /\ Len(calls') = loc'.i + 1
                     /\ SubSeq(calls', 1, Len(calls)) = calls
                     /\ calls'[Len(calls')].url = C23_urlOf(loc.filings[loc.i + 1])
                ELSE /\ calls' = calls /\ pc' = "done"
                     /\ sent'[1].status = 404
    ]_vars

\* The second handler of part_004 has returned the second of two
\* candidates, the first document not containing the CUSIP.
C23_Witness ==
  /\ h = "part_004#2" /\ pc = "done" /\ Len(calls) = 3 /\ loc.i = 2
  /\ Len(sent) = 1 /\ sent[1].status = 200
  /\ sent[1].body.filingMeta = loc.filings[2]
  /\ loc.filings[1] # loc.filings[2]

\* The second analyze-cusip handler receives a search result that lists
\* at least one filing.
C24_searchResult ==
  /\ h = "analyze-cusip#2" /\ pc = "search"
  /\ last'.status >= 200 /\ last'.status <= 299
  /\ last'.body.kind = "object" /\ last'.body.isArray
  /\ Len(last'.body.filings) > 0

\* C24: in the second analyze-cusip handler the SEC directory listing is
\* requested exactly when the first search result carries no linkToHtml
\* and carries both an accession number and a CIK; a linkToHtml supplied by
\* the search result is returned unchanged; and whenever htmlFromSecIndex
\* is non-null in the response, linkToHtml equals it.
C24_IndexOnlyWhenNeeded ==
  [][ /\ C24_searchResult =>
           LET filing == last'.body.filings[1]
           IN /\ (Len(calls') = Len(calls) + 1) =
                   (/\ filing.linkToHtml = NullRec
                    /\ filing.accessionNo \notin {Undefined, Null, <<>>}
                    /\ filing.cik \notin {Undefined, Null, <<>>})
              /\ Len(calls') = Len(calls) + 1 =>
                   /\ pc' = "index" /\ sent' = sent
                   /\ calls'[Len(calls')].url.path[3] = IndexJson
              /\ filing.linkToHtml # NullRec =>
                   /\ Len(sent') = 1 /\ sent'[1].status = 200
                   /\ sent'[1].body.linkToHtml = filing.linkToHtml
                   /\ sent'[1].body.htmlFromSecIndex = NullRec
      /\ (h = "analyze-cusip#2" /\ Len(sent') = 1 /\ sent'[1].status = 200) =>
           \/ sent'[1].body.htmlFromSecIndex = NullRec
           \/ sent'[1].body.linkToHtml = sent'[1].body.htmlFromSecIndex
    ]_vars

\* The handler has asked for the directory listing, found an .htm
\* document in it and returned its URL in both fields.
C24_Witness ==
  /\ h = "analyze-cusip#2" /\ pc = "done" /\ Len(calls) = 2
  /\ Len(sent) = 1 /\ sent[1].status = 200
  /\ sent[1].body.htmlFromSecIndex # NullRec
  /\ sent[1].body.linkToHtml = sent[1].body.htmlFromSecIndex

\* A CIK made only of decimal digits, at least one of them not zero.
C25_digitCik(cik) ==
  /\ cik # <<>>
  /\ \A i \in DOMAIN cik : cik[i] \in DecimalDigits
  /\ \E i \in DOMAIN cik : cik[i] # "0"

\* The number written cik is at most 2^53.
C25_exact(cik) ==
  LET z == stripLeadingZeros(cik)
  IN Len(z) < 16 \/ (Len(z) = 16 /\ ~lessDigits(TwoTo53, z))

\* The handler has requested the directory listing of the filing that
\* the CIK cik and the accession number acc name, at the URL that
\* cik.replace(/^0+/, "") gives.
C25_sameDirectory(n, cik, acc) ==
  /\ Len(calls) >= n
  /\ calls[n].url = EdgarUrl(AC2_cikNoZeros(cik), removeDashes(acc), IndexJson)

\* The handlers that print parseInt(cik, 10) have made their directory
\* request, for a CIK of decimal digits.
C25_requested ==
  \/ /\ h \in {"filing-html", "parse-filing#2"} /\ Len(calls) >= 1
     /\ C25_digitCik(query.cik)
  \/ /\ h = "analyze-cusip#1" /\ Len(calls) >= 2
     /\ C25_digitCik(loc.filings[1].cik)

C25_cik == IF h = "analyze-cusip#1" THEN loc.filings[1].cik ELSE query.cik
C25_acc == IF h = "analyze-cusip#1" THEN loc.filings[1].accessionNo ELSE query.accessionNo
C25_call == IF h = "analyze-cusip#1" THEN 2 ELSE 1

C26_checksBoth ==
  h \in {"analyze-cusip#1", "analyze-cusip#2", "part_000#2", "part_003",
         "part_004#1"} \cup ExtractHandlers

\* A required query parameter is missing or empty.
C26_paramMissing ==
  LET none == {Undefined, <<>>}
  IN \/ query.cusip \in none
     \/ h \in ExtractHandlers /\ (query.accessionNo \in none \/ query.cik \in none)

\* The API key the handler needs is not set.
C26_keyMissing ==
  IF h \in ExtractHandlers THEN env.OPENAI_API_KEY \in {Undefined, <<>>}
  ELSE env.SEC_API_KEY \in {Undefined, <<>>}

\* The response is the 500 that names the missing API key.
C26_missingKeyResponse ==
  /\ Len(sent) = 1 /\ sent[1].status = 500
  /\ LET text == IF "message" \in DOMAIN sent[1].body THEN sent[1].body.message
                 ELSE IF "error" \in DOMAIN sent[1].body THEN sent[1].body.error
                 ELSE Msg(<<"">>)
     IN /\ DOMAIN text = {"text", "subst"}
        /\ text.text[1] \in {"SEC_API_KEY", "OPENAI_API_KEY"}

\* C26: in every handler that checks both, a request with a missing
\* required query parameter is answered 400 whether or not the API key is
\* set, and the missing-key 500 is the answer exactly to the requests whose
\* required parameters are all present while the key is not set.
C26_ValidationBeforeConfiguration ==
  (C26_checksBoth /\ pc = "done") =>
     /\ C26_paramMissing => (Len(sent) = 1 /\ sent[1].status = 400)
     /\ C26_missingKeyResponse = (~C26_paramMissing /\ C26_keyMissing)

\* A handler that checks both has answered 400 to a request without a
\* CUSIP while the API key is not set either.
C26_Witness ==
  /\ C26_checksBoth /\ pc = "done"
  /\ C26_paramMissing /\ C26_keyMissing
  /\ Len(sent) = 1 /\ sent[1].status = 400

\* An extract-terms handler has handled a model content that, trimmed,
\* does not start with three backticks.
C27_unfenced ==
  /\ h \in ExtractHandlers /\ pc = "done"
  /\ Len(calls) >= 1 /\ calls[Len(calls)].url = ChatCompletions
  /\ last.status >= 200 /\ last.status <= 299
  /\ last.body.kind = "object"
  /\ last.body.content \notin {Undefined, <<>>}
  /\ ~startsWith(trim(last.body.content), Fence)

\* C27: in every extract-terms handler, when the trimmed model content
\* does not start with three backticks, the text handed to the JSON parser
\* is exactly the trimmed content: valid unfenced JSON is returned parsed
\* with status 200, and any other unfenced content is a parse failure
\* (500, with the trimmed content as the cleaned text where the handler
\* reports it).
C27_UnfencedParsedAsIs ==
  C27_unfenced =>
    /\ Len(sent) = 1
    /\ LET text == trim(last.body.content)
       IN IF isJsonValue(text)
          THEN /\ sent[1].status = 200
               /\ C11_note(h, sent[1].body) = removeWhiteSpace(text)
          ELSE /\ sent[1].status = 500
               /\ sent[1].body.assistantContent = last.body.content
               /\ h = "parse-filing#3" => sent[1].body.cleaned = text

\* A handler has answered 200 with the parsed value of an unfenced JSON
\* content that has white space around it.
C27_Witness ==
  /\ C27_unfenced
  /\ last.body.content = <<" ", "{", "}", "\n">>
  /\ Len(sent) = 1 /\ sent[1].status = 200
  /\ C11_note(h, sent[1].body) = <<"{", "}">>

\* C28: provided each outbound call eventually resolves or rejects, every
\* handler invocation reaches its response, having made at most three
\* outbound calls in the handlers without a loop and at most one plus the
\* number of listed candidate filings in the scanning variants.
C28_Terminates ==
  /\ [](Len(calls) <= IF h \in MapHandlers THEN 1 + Len(loc.filings)
                      ELSE 3)
  /\ <>(pc = "done" /\ Len(sent) = 1)

\* A scanning variant has fetched every one of two candidates, found the
\* CUSIP in none and answered 404.
C28_Witness ==
  /\ h \in MapHandlers /\ pc = "done"
  /\ Len(loc.filings) = 2 /\ Len(calls) = 1 + Len(loc.filings)
  /\ Len(sent) = 1 /\ sent[1].status = 404

====
